---- MODULE Spec2Model ----
(***************************************************************************)
(* Model of the Cronos n8n node: its utility layer                         *)
(* (src/nodes/Cronos/utils/index.ts), the Utility operations that use it   *)
(* (encodeFunction, decodeData), the transport (jsonRpcRequest,            *)
(* cronosScanRequest), the handlers getBalance, getTokenBalances, getLogs  *)
(* estimateGas and sendTransaction, the decoding of the strings contracts  *)
(* return, Cronos.execute, the encoder written out in readContract, and    *)
(* the trigger node (CronosTrigger.poll and its five poll functions).      *)
(*                                                                         *)
(* Representation.                                                         *)
(*   - A JavaScript string is a sequence of one-character strings.         *)
(*   - A BigInt is a record [ok, neg, mag]: mag is the magnitude as a      *)
(*     sequence of decimal digits 0..9, most significant first, without    *)
(*     leading zeros (zero is <<0>>); ok = FALSE stands for the            *)
(*     SyntaxError / RangeError BigInt(...) throws.                        *)
(*   - A Number that holds an integer is represented by that integer's     *)
(*     magnitude (digits), so that doubles above 2^31 can be written.      *)
(*   - The value a function returns or the exception it throws is a record *)
(*     [threw, error, value].                                              *)
(***************************************************************************)
EXTENDS Integers, Sequences, FiniteSets, TLC

VARIABLES pc, input, locals, output, requests

vars == <<pc, input, locals, output, requests>>

(***************************************************************************)
(* Bounds of the model.                                                    *)
(***************************************************************************)
\* decimal counts 0..MaxDecimals are tried
MaxDecimals == 23
\* the integers 0..MaxNat are tried as numeric inputs
MaxNat == 40
\* longest fraction / digit run of a generated amount
MaxFrac == 3
\* longest parameter list handed to an encoder
MaxParams == 2
\* longest run of hex digits handed to hexToDecimal
MaxHexLen == 2
\* most whole 32-byte words in a piece of data handed to a decoder
MaxWords == 2
\* most input items of one execution of the node
MaxItems == 3
\* most bytes of a string returned by a contract
MaxStringLen == 2
\* most calls of jsonRpcRequest in flight together
MaxCalls == 3
\* most polls of the trigger in a row
MaxPolls == 3

(***************************************************************************)
(* Characters and strings.                                                 *)
(***************************************************************************)
HexChars == <<"0","1","2","3","4","5","6","7","8","9","a","b","c","d","e","f">>

UpperHexChars == <<"0","1","2","3","4","5","6","7","8","9","A","B","C","D","E","F">>

\* the value of a digit character in any radix up to 16; 99 when c is no digit
DigitValue(c) ==
  IF \E i \in 1..16 : HexChars[i] = c
  THEN (CHOOSE i \in 1..16 : HexChars[i] = c) - 1
  ELSE IF \E i \in 11..16 : UpperHexChars[i] = c
  THEN (CHOOSE i \in 11..16 : UpperHexChars[i] = c) - 1
  ELSE 99

\* String.prototype.toLowerCase, on the characters the model uses
ToLowerChar(c) ==
  IF \E i \in 11..16 : UpperHexChars[i] = c
  THEN HexChars[CHOOSE i \in 11..16 : UpperHexChars[i] = c]
  ELSE IF c = "X" THEN "x" ELSE c

toLowerCase(s) == [i \in 1..Len(s) |-> ToLowerChar(s[i])]

Repeat(c, n) == [i \in 1..n |-> c]

\* String.prototype.padStart(n, c) and padEnd(n, c), c one character
padStart(s, n, c) == IF Len(s) >= n THEN s ELSE Repeat(c, n - Len(s)) \o s

padEnd(s, n, c) == IF Len(s) >= n THEN s ELSE s \o Repeat(c, n - Len(s))

\* String.prototype.slice(from, to), 0-based, to exclusive, no negative indices
slice(s, from, to) ==
  LET t == IF to > Len(s) THEN Len(s) ELSE to
  IN  IF from >= t THEN <<>> ELSE SubSeq(s, from + 1, t)

\* s.startsWith(p)
startsWith(s, p) == Len(s) >= Len(p) /\ SubSeq(s, 1, Len(p)) = p

\* the positions at which p occurs in s
Occurrences(s, p) ==
  {i \in 1..(Len(s) - Len(p) + 1) : SubSeq(s, i, i + Len(p) - 1) = p}

Min(S) == CHOOSE x \in S : \A y \in S : x <= y

\* String.prototype.replace(p, '') with a string pattern: the FIRST occurrence
\* of p, wherever it is, is removed
replaceFirst(s, p) ==
  IF Occurrences(s, p) = {} THEN s
  ELSE LET i == Min(Occurrences(s, p))
       IN  SubSeq(s, 1, i - 1) \o SubSeq(s, i + Len(p), Len(s))

\* s.replace(/0+$/, ''): the trailing run of '0' is removed
stripTrailingZeros(s) ==
  LET keep == {k \in 0..Len(s) : (k = 0 \/ s[k] # "0")
                                  /\ \A j \in (k+1)..Len(s) : s[j] = "0"}
  IN  SubSeq(s, 1, CHOOSE k \in keep : TRUE)

\* s.split('.'): the pieces between the dots
RECURSIVE splitFrom(_, _)
splitFrom(s, start) ==
  LET dots == {i \in start..Len(s) : s[i] = "."}
  IN  IF dots = {} THEN << SubSeq(s, start, Len(s)) >>
      ELSE << SubSeq(s, start, Min(dots) - 1) >> \o splitFrom(s, Min(dots) + 1)

split(s) == splitFrom(s, 1)

(***************************************************************************)
(* Arbitrary-precision naturals: digit sequences, most significant first.  *)
(***************************************************************************)
StripZeros(ds) ==
  LET nz == {i \in 1..Len(ds) : ds[i] # 0}
  IN  IF nz = {} THEN <<0>> ELSE SubSeq(ds, Min(nz), Len(ds))

IsZero(ds) == ds = <<0>>

SmallDigits(c) == IF c = 0 THEN <<>>
                  ELSE IF c < 10 THEN <<c>>
                  ELSE IF c < 100 THEN <<c \div 10, c % 10>>
                  ELSE <<c \div 100, (c \div 10) % 10, c % 10>>

\* The digit loops below split their range in two halves instead of stepping
\* one digit at a time, which keeps the evaluation shallow; the digits are
\* still visited in the order the carry (or remainder) travels.  The test on
\* the first half's result is always true: it makes TLC evaluate that half
\* before it enters the second.

\* digits lo..hi of ds times m, plus the carry coming in from the right
RECURSIVE MulAddRange(_, _, _, _, _)
MulAddRange(ds, lo, hi, m, carry) ==
  IF lo > hi THEN [digits |-> <<>>, carry |-> carry]
  ELSE IF lo = hi
  THEN [digits |-> <<(ds[lo] * m + carry) % 10>>, carry |-> (ds[lo] * m + carry) \div 10]
  ELSE LET mid == (lo + hi) \div 2
           right == MulAddRange(ds, mid + 1, hi, m, carry)
           left == MulAddRange(ds, lo, mid, m, right.carry)
       IN  IF right.carry >= 0
           THEN [digits |-> left.digits \o right.digits, carry |-> left.carry]
           ELSE right

\* ds * m + a, for small m and a
MulAdd(ds, m, a) ==
  LET x == MulAddRange(ds, 1, Len(ds), m, a)
  IN  StripZeros(SmallDigits(x.carry) \o x.digits)

\* digits lo..hi of ds divided by a small m, rem coming in from the left
RECURSIVE DivSmallRange(_, _, _, _, _)
DivSmallRange(ds, lo, hi, m, rem) ==
  IF lo > hi THEN [q |-> <<>>, r |-> rem]
  ELSE IF lo = hi
  THEN [q |-> <<(rem * 10 + ds[lo]) \div m>>, r |-> (rem * 10 + ds[lo]) % m]
  ELSE LET mid == (lo + hi) \div 2
           left == DivSmallRange(ds, lo, mid, m, rem)
           right == DivSmallRange(ds, mid + 1, hi, m, left.r)
       IN  IF left.r >= 0 THEN [q |-> left.q \o right.q, r |-> right.r] ELSE left

DivSmall(ds, m) ==
  LET x == DivSmallRange(ds, 1, Len(ds), m, 0) IN [q |-> StripZeros(x.q), r |-> x.r]

\* a < b, both canonical
Less(a, b) ==
  \/ Len(a) < Len(b)
  \/ /\ Len(a) = Len(b)
     /\ \E i \in 1..Len(a) : a[i] < b[i] /\ \A j \in 1..(i-1) : a[j] = b[j]

\* digits lo..hi of a - b (equal lengths), the borrow coming in from the right
RECURSIVE SubRange(_, _, _, _, _)
SubRange(a, b, lo, hi, borrow) ==
  IF lo > hi THEN [digits |-> <<>>, borrow |-> borrow]
  ELSE IF lo = hi
  THEN [digits |-> <<(a[lo] - b[lo] - borrow + 10) % 10>>,
        borrow |-> IF a[lo] - b[lo] - borrow < 0 THEN 1 ELSE 0]
  ELSE LET mid == (lo + hi) \div 2
           right == SubRange(a, b, mid + 1, hi, borrow)
           left == SubRange(a, b, lo, mid, right.borrow)
       IN  IF right.borrow >= 0
           THEN [digits |-> left.digits \o right.digits, borrow |-> left.borrow]
           ELSE right

\* a - b for a >= b
Sub(a, b) ==
  StripZeros(SubRange(a, Repeat(0, Len(a) - Len(b)) \o b, 1, Len(a), 0).digits)

\* digits lo..hi of a + b (equal lengths), the carry coming in from the right
RECURSIVE AddRange(_, _, _, _, _)
AddRange(a, b, lo, hi, carry) ==
  IF lo > hi THEN [digits |-> <<>>, carry |-> carry]
  ELSE IF lo = hi
  THEN [digits |-> <<(a[lo] + b[lo] + carry) % 10>>, carry |-> (a[lo] + b[lo] + carry) \div 10]
  ELSE LET mid == (lo + hi) \div 2
           right == AddRange(a, b, mid + 1, hi, carry)
           left == AddRange(a, b, lo, mid, right.carry)
       IN  IF right.carry >= 0
           THEN [digits |-> left.digits \o right.digits, carry |-> left.carry]
           ELSE right

\* a + b
Add(a, b) ==
  LET n == IF Len(a) > Len(b) THEN Len(a) ELSE Len(b)
      x == AddRange(Repeat(0, n - Len(a)) \o a, Repeat(0, n - Len(b)) \o b, 1, n, 0)
  IN  StripZeros(<<x.carry>> \o x.digits)

\* a * b, digit by digit of b
RECURSIVE MulFrom(_, _, _, _)
MulFrom(a, b, i, acc) ==
  IF i > Len(b) \/ Len(acc) = 0 THEN acc
  ELSE MulFrom(a, b, i + 1, Add(MulAdd(acc, 10, 0), MulAdd(a, b[i], 0)))

Mul(a, b) == MulFrom(a, b, 1, <<0>>)

\* one step of long division: the next quotient digit and the remainder
DivStep(cur, b) ==
  LET k == CHOOSE k \in 0..9 : /\ ~Less(cur, MulAdd(b, k, 0))
                               /\ Less(cur, MulAdd(b, k + 1, 0))
  IN  [q |-> <<k>>, r |-> Sub(cur, MulAdd(b, k, 0))]

\* long division of digits lo..hi of a by b # 0, rem coming in from the left
RECURSIVE LongDivRange(_, _, _, _, _)
LongDivRange(a, lo, hi, b, rem) ==
  IF lo > hi THEN [q |-> <<>>, r |-> rem]
  ELSE IF lo = hi THEN DivStep(StripZeros(rem \o <<a[lo]>>), b)
  ELSE LET mid == (lo + hi) \div 2
           left == LongDivRange(a, lo, mid, b, rem)
           right == LongDivRange(a, mid + 1, hi, b, left.r)
       IN  IF Len(left.r) > 0 THEN [q |-> left.q \o right.q, r |-> right.r] ELSE left

DivMod(a, b) ==
  LET x == LongDivRange(a, 1, Len(a), b, <<0>>) IN [q |-> StripZeros(x.q), r |-> x.r]

\* acc * 2^k, four bits at a time (acc is evaluated before each step)
RECURSIVE ShiftLeft(_, _)
ShiftLeft(acc, k) ==
  IF k = 0 \/ Len(acc) = 0 THEN acc
  ELSE IF k >= 4 THEN ShiftLeft(MulAdd(acc, 16, 0), k - 4)
  ELSE ShiftLeft(MulAdd(acc, 2, 0), k - 1)

TwoPow(k) == ShiftLeft(<<1>>, k)

\* the integer 10^d
Pow10(d) == <<1>> \o Repeat(0, d)

(***************************************************************************)
(* Numbers: 10 ** decimals is a double.  Number::exponentiate returns an   *)
(* implementation-approximated value, so when 10^d is not representable    *)
(* with a 53-bit significand either neighbouring double can be the result; *)
(* a representable 10^d is returned exactly.                               *)
(***************************************************************************)
SignificandBits == 53

TwoPowSignificand == TwoPow(SignificandBits)

\* halve q until it fits the significand, counting the shifts and keeping the
\* bit shifted out last (round) and whether any earlier one was set (sticky)
RECURSIVE Shrink(_, _, _, _)
Shrink(q, shifts, round, sticky) ==
  IF Less(q, TwoPowSignificand)
  THEN [q |-> q, shifts |-> shifts, round |-> round, sticky |-> sticky]
  ELSE LET h == DivSmall(q, 2)
       IN  Shrink(h.q, shifts + 1, h.r, IF sticky = 1 \/ round = 1 THEN 1 ELSE 0)

\* the doubles (as exact integers) that 10 ** d may evaluate to
Pow10Doubles(d) ==
  LET s == Shrink(Pow10(d), 0, 0, 0)
  IN  IF s.round = 0 /\ s.sticky = 0
      THEN {ShiftLeft(s.q, s.shifts)}
      ELSE {ShiftLeft(s.q, s.shifts), ShiftLeft(MulAdd(s.q, 1, 1), s.shifts)}

(***************************************************************************)
(* BigInt.                                                                 *)
(***************************************************************************)
BigIntOf(neg, mag) == [ok |-> TRUE, neg |-> neg /\ ~IsZero(mag), mag |-> mag]

BigIntError == [ok |-> FALSE, neg |-> FALSE, mag |-> <<0>>]

\* the digits of s read in the given radix; s is non-empty and all digits
\* (acc is evaluated before each step; a decimal literal is its own digits)
RECURSIVE ParseRadixRec(_, _, _, _)
ParseRadixRec(s, i, radix, acc) ==
  IF i > Len(s) \/ Len(acc) = 0 THEN acc
  ELSE ParseRadixRec(s, i + 1, radix, MulAdd(acc, radix, DigitValue(s[i])))

ParseRadix(s, radix) ==
  IF radix = 10 THEN StripZeros([i \in 1..Len(s) |-> DigitValue(s[i])])
  ELSE ParseRadixRec(s, 1, radix, <<0>>)

AllDigits(s, radix) == \A i \in 1..Len(s) : DigitValue(s[i]) < radix

\* StringToBigInt: the empty string is 0n; 0x / 0o / 0b select the radix and
\* take no sign; a decimal literal may carry one sign; anything else is a
\* SyntaxError (the model's strings hold no white space)
StringToBigInt(s) ==
  LET prefix == toLowerCase(slice(s, 0, 2))
      radix == IF prefix = <<"0","x">> THEN 16
               ELSE IF prefix = <<"0","o">> THEN 8
               ELSE IF prefix = <<"0","b">> THEN 2 ELSE 10
      signed == radix = 10 /\ Len(s) > 0 /\ s[1] \in {"-", "+"}
      body == IF radix # 10 THEN slice(s, 2, Len(s))
              ELSE IF signed THEN slice(s, 1, Len(s)) ELSE s
  IN  IF s = <<>> THEN BigIntOf(FALSE, <<0>>)
      ELSE IF body = <<>> \/ ~AllDigits(body, radix) THEN BigIntError
      ELSE BigIntOf(signed /\ s[1] = "-", ParseRadix(body, radix))

\* the hexadecimal digits of a magnitude, most significant first
RECURSIVE HexDigitsRec(_)
HexDigitsRec(mag) ==
  IF IsZero(mag) THEN <<>>
  ELSE LET h == DivSmall(mag, 16) IN HexDigitsRec(h.q) \o <<HexChars[h.r + 1]>>

\* BigInt.prototype.toString(radix) for radix 10 and 16
BigIntToString(b, radix) ==
  LET digits == IF radix = 10 THEN [i \in 1..Len(b.mag) |-> HexChars[b.mag[i] + 1]]
                ELSE IF IsZero(b.mag) THEN <<"0">> ELSE HexDigitsRec(b.mag)
  IN  (IF b.neg THEN <<"-">> ELSE <<>>) \o digits

\* a / b and a % b on BigInts: the quotient truncates toward zero and the
\* remainder takes the sign of the dividend
BigIntDiv(a, b) == BigIntOf(a.neg # b.neg, DivMod(a.mag, b.mag).q)

\* a * b on BigInts
BigIntMul(a, b) == BigIntOf(a.neg # b.neg, Mul(a.mag, b.mag))

BigIntRem(a, b) == BigIntOf(a.neg, DivMod(a.mag, b.mag).r)

(***************************************************************************)
(* What a call returns or throws.                                          *)
(***************************************************************************)
Return(v) == [threw |-> FALSE, error |-> "", value |-> v]

Throw(e) == [threw |-> TRUE, error |-> e, value |-> <<>>]

(***************************************************************************)
(* Unit conversion.                                                        *)
(***************************************************************************)
CRO_DECIMALS == 18

NoLocals == [divisor |-> <<0>>, wholePart |-> BigIntError,
             fractionalPart |-> BigIntError, mid |-> <<>>]

\* the locals of weiToCro; divisor is the double 10 ** decimals produced
weiToCroLocals(wei, decimals, divisor) ==
  LET weiBigInt == StringToBigInt(wei)
      div == BigIntOf(FALSE, divisor)
  IN  [divisor |-> divisor,
       wholePart |-> IF weiBigInt.ok THEN BigIntDiv(weiBigInt, div) ELSE BigIntError,
       fractionalPart |-> IF weiBigInt.ok THEN BigIntRem(weiBigInt, div) ELSE BigIntError,
       mid |-> <<>>]

weiToCro(wei, decimals, divisor) ==
  LET weiBigInt == StringToBigInt(wei)
      l == weiToCroLocals(wei, decimals, divisor)
      fractionalStr == padStart(BigIntToString(l.fractionalPart, 10), decimals, "0")
      trimmedFractional == stripTrailingZeros(fractionalStr)
  IN  IF ~weiBigInt.ok THEN Throw("SyntaxError")
      ELSE IF IsZero(l.fractionalPart.mag) THEN Return(BigIntToString(l.wholePart, 10))
      ELSE Return(BigIntToString(l.wholePart, 10) \o <<".">> \o trimmedFractional)

\* croToWei with the fraction padded on the wrong side
croToWeiPadStart(cro, decimals) ==
  LET parts == split(cro)
      wholePart == parts[1]
      fractionalPart == IF Len(parts) >= 2 THEN parts[2] ELSE <<>>
      paddedFractional == slice(padStart(fractionalPart, decimals, "0"), 0, decimals)
      b == StringToBigInt(wholePart \o paddedFractional)
  IN  IF b.ok THEN Return(BigIntToString(b, 10)) ELSE Throw("SyntaxError")

croToWei(cro, decimals) ==
  LET parts == split(cro)
      wholePart == parts[1]
      fractionalPart == IF Len(parts) >= 2 THEN parts[2] ELSE <<>>
      paddedFractional == slice(padEnd(fractionalPart, decimals, "0"), 0, decimals)
      combined == wholePart \o paddedFractional
      b == StringToBigInt(combined)
  IN  IF b.ok THEN Return(BigIntToString(b, 10)) ELSE Throw("SyntaxError")


(***************************************************************************)
(* JavaScript values handed to the utilities: a string, an integer Number  *)
(* or a boolean.                                                           *)
(***************************************************************************)
JsString(str) == [t |-> "string", s |-> str, n |-> 0, b |-> FALSE]

JsNumber(k) == [t |-> "number", s |-> <<>>, n |-> k, b |-> FALSE]

JsBoolean(v) == [t |-> "boolean", s |-> <<>>, n |-> 0, b |-> v]

\* a small native natural as digits
RECURSIVE NatDigits(_)
NatDigits(k) == IF k < 10 THEN <<k>> ELSE NatDigits(k \div 10) \o <<k % 10>>

Abs(k) == IF k < 0 THEN -k ELSE k

\* BigInt(value)
ToBigInt(v) ==
  IF v.t = "string" THEN StringToBigInt(v.s)
  ELSE IF v.t = "number" THEN BigIntOf(v.n < 0, NatDigits(Abs(v.n)))
  ELSE BigIntOf(FALSE, IF v.b THEN <<1>> ELSE <<0>>)

\* value.toString()
toStringOf(v) ==
  IF v.t = "string" THEN v.s
  ELSE IF v.t = "number" THEN BigIntToString(BigIntOf(v.n < 0, NatDigits(Abs(v.n))), 10)
  ELSE IF v.b THEN <<"t","r","u","e">> ELSE <<"f","a","l","s","e">>

\* the truthiness of a value: '' , 0 and false are falsy
Truthy(v) ==
  IF v.t = "string" THEN v.s # <<>>
  ELSE IF v.t = "number" THEN v.n # 0
  ELSE v.b

(***************************************************************************)
(* Numeric base conversion.                                                *)
(***************************************************************************)
hexToDecimal(hex) ==
  IF hex = <<>> \/ hex = <<"0", "x">> THEN Return(<<"0">>)
  ELSE IF StringToBigInt(hex).ok THEN Return(BigIntToString(StringToBigInt(hex), 10))
  ELSE Throw("SyntaxError")

\* decimalToHex without the 0x prefix
decimalToHexNoPrefix(decimal) ==
  IF ToBigInt(decimal).ok THEN Return(BigIntToString(ToBigInt(decimal), 16))
  ELSE Throw("SyntaxError")

decimalToHex(decimal) ==
  LET bigIntValue == ToBigInt(decimal)
  IN  IF bigIntValue.ok THEN Return(<<"0", "x">> \o BigIntToString(bigIntValue, 16))
      ELSE Throw("SyntaxError")

(***************************************************************************)
(* ABI encoding.  A parameter is a record [type, value]: the type a string *)
(* of characters, the value a JavaScript value.                            *)
(***************************************************************************)
\* isValidAddress: /^0x[a-fA-F0-9]{40}$/
isValidAddress(address) ==
  /\ Len(address) = 42
  /\ startsWith(address, <<"0", "x">>)
  /\ \A i \in 3..42 : DigitValue(address[i]) < 16

\* isValidTxHash accepting any digit run of 64 or more
isValidTxHashNoEnd(hash) ==
  /\ Len(hash) >= 66
  /\ startsWith(hash, <<"0", "x">>)
  /\ \A i \in 3..66 : DigitValue(hash[i]) < 16

\* isValidTxHash: /^0x[a-fA-F0-9]{64}$/
isValidTxHash(hash) ==
  /\ Len(hash) = 66
  /\ startsWith(hash, <<"0", "x">>)
  /\ \A i \in 3..66 : DigitValue(hash[i]) < 16

\* padAddress with the zeros on the wrong side
padAddressPadEnd(address) ==
  LET cleanAddress == replaceFirst(toLowerCase(address), <<"0", "x">>)
  IN  <<"0", "x">> \o padEnd(cleanAddress, 64, "0")

padAddress(address) ==
  LET cleanAddress == replaceFirst(toLowerCase(address), <<"0", "x">>)
  IN  <<"0", "x">> \o padStart(cleanAddress, 64, "0")

\* '0x' + hexValue.toString(16).padStart(64, '0'), hexValue being BigInt(num)
padBigInt(hexValue) ==
  IF hexValue.ok
  THEN Return(<<"0", "x">> \o padStart(BigIntToString(hexValue, 16), 64, "0"))
  ELSE Throw("SyntaxError")

padNumber(num) == padBigInt(ToBigInt(num))

TypeAddress == <<"a","d","d","r","e","s","s">>
TypeUint256 == <<"u","i","n","t","2","5","6">>
TypeUint == <<"u","i","n","t">>
TypeInt256 == <<"i","n","t","2","5","6">>
TypeInt == <<"i","n","t">>
TypeBool == <<"b","o","o","l">>
TypeBytes32 == <<"b","y","t","e","s","3","2">>
TypeBytes == <<"b","y","t","e","s">>
TypeString == <<"s","t","r","i","n","g">>

\* padded.slice(2), a throw of the padding passing through
sliceFrom2(padded) ==
  IF padded.threw THEN padded ELSE Return(slice(padded.value, 2, Len(padded.value)))

\* what one turn of encodeFunctionCall's loop appends to data
encodeFunctionCallParam(param) ==
  IF param.type = TypeAddress
  THEN sliceFrom2(Return(padAddress(toStringOf(param.value))))
  ELSE IF param.type = TypeUint256 \/ param.type = TypeUint \/ param.type = TypeInt256
  THEN sliceFrom2(padNumber(param.value))
  ELSE IF param.type = TypeBool
  THEN sliceFrom2(padNumber(JsNumber(IF Truthy(param.value) THEN 1 ELSE 0)))
  ELSE IF param.type = TypeBytes32
  THEN Return(padEnd(replaceFirst(toStringOf(param.value), <<"0", "x">>), 64, "0"))
  ELSE Return(<<>>)

\* encodeFunctionCall's loop over params[i..], data being what is built so far
RECURSIVE encodeFunctionCallFrom(_, _, _)
encodeFunctionCallFrom(params, i, data) ==
  IF i > Len(params) THEN Return(data)
  ELSE LET piece == encodeFunctionCallParam(params[i])
       IN  IF piece.threw THEN piece
           ELSE encodeFunctionCallFrom(params, i + 1, data \o piece.value)

encodeFunctionCall(functionSignature, params) ==
  encodeFunctionCallFrom(params, 1, functionSignature)

\* what one turn of the loop of the Utility operation encodeFunction appends
\* to encodedData, total being params.length
encodeFunctionParam(param, total) ==
  IF param.type = TypeAddress
  THEN IF ~isValidAddress(toStringOf(param.value)) THEN Throw("Error")
       ELSE Return(padStart(replaceFirst(toLowerCase(param.value.s), <<"0", "x">>), 64, "0"))
  ELSE IF param.type = TypeUint256 \/ startsWith(param.type, TypeUint)
                                   \/ startsWith(param.type, TypeInt)
  THEN LET bigIntValue == ToBigInt(param.value)
       IN  IF bigIntValue.ok THEN Return(padStart(BigIntToString(bigIntValue, 16), 64, "0"))
           ELSE Throw("SyntaxError")
  ELSE IF param.type = TypeBool
  THEN LET boolValue == IF param.value = JsString(<<"t","r","u","e">>)
                           \/ param.value = JsString(<<"1">>)
                        THEN <<"1">> ELSE <<"0">>
       IN  Return(padStart(boolValue, 64, "0"))
  ELSE IF param.type = TypeBytes32
  THEN IF param.value.t # "string" THEN Throw("TypeError")
       ELSE Return(padEnd(replaceFirst(param.value.s, <<"0", "x">>), 64, "0"))
  ELSE IF param.type = TypeBytes
  THEN IF param.value.t # "string" THEN Throw("TypeError")
       ELSE Return(padStart(BigIntToString(BigIntOf(FALSE, NatDigits(total * 32)), 16), 64, "0"))
  ELSE IF param.type = TypeString
  THEN Return(padStart(BigIntToString(BigIntOf(FALSE, NatDigits(total * 32)), 16), 64, "0"))
  ELSE Return(<<>>)

\* encodeFunction's loop over params[i..]
RECURSIVE encodeFunctionFrom(_, _, _)
encodeFunctionFrom(params, i, encodedData) ==
  IF i > Len(params) THEN Return(encodedData)
  ELSE LET piece == encodeFunctionParam(params[i], Len(params))
       IN  IF piece.threw THEN piece
           ELSE encodeFunctionFrom(params, i + 1, encodedData \o piece.value)

\* the encodedData of the Utility operation encodeFunction, its parameters
\* being the parsed JSON
encodeFunction(functionSignature, params) ==
  encodeFunctionFrom(params, 1, functionSignature)

(***************************************************************************)
(* ABI decoding.                                                           *)
(***************************************************************************)
\* String.prototype.slice(-n): the last n characters
sliceFromEnd(s, n) == IF Len(s) <= n THEN s ELSE SubSeq(s, Len(s) - n + 1, Len(s))

decodeUint256(hex) ==
  IF hex = <<>> \/ hex = <<"0", "x">> THEN Return(<<"0">>)
  ELSE IF StringToBigInt(hex).ok THEN Return(BigIntToString(StringToBigInt(hex), 10))
  ELSE Throw("SyntaxError")

ZeroAddress == <<"0", "x">> \o Repeat("0", 40)

decodeAddress(hex) ==
  IF hex = <<>> \/ hex = <<"0", "x">> THEN ZeroAddress
  ELSE LET cleanHex == replaceFirst(hex, <<"0", "x">>)
       IN  <<"0", "x">> \o toLowerCase(sliceFromEnd(cleanHex, 40))

\* the digits parseInt(str, 16) reads: an optional 0x, then the longest run
\* of hex digits (the model's strings hold no sign and no white space)
ParseIntDigits(str) ==
  LET body == IF toLowerCase(slice(str, 0, 2)) = <<"0", "x">> THEN slice(str, 2, Len(str)) ELSE str
      n == CHOOSE k \in 0..Len(body) :
             /\ \A i \in 1..k : DigitValue(body[i]) < 16
             /\ (k = Len(body) \/ DigitValue(body[k + 1]) >= 16)
  IN  SubSeq(body, 1, n)

\* parseInt(str, 16) === 1
ParseIntHexIsOne(str) ==
  LET digits == ParseIntDigits(str)
  IN  /\ Len(digits) >= 1
      /\ digits[Len(digits)] = "1"
      /\ \A i \in 1..(Len(digits) - 1) : digits[i] = "0"

TypeUnknown == <<"u","n","k","n","o","w","n">>

\* paramData.match(/.{1,64}/g) || []
Chunks(paramData) ==
  [i \in 1..((Len(paramData) + 63) \div 64) |-> slice(paramData, 64 * (i - 1), 64 * i)]

\* one turn of decodeData's loop: the entry pushed for chunks[i]
decodeDataChunk(rawChunk, typeArray, i) ==
  LET chunk == padEnd(rawChunk, 64, "0")
      type == IF i <= Len(typeArray) /\ typeArray[i] # <<>> THEN typeArray[i] ELSE TypeUnknown
      word == <<"0", "x">> \o chunk
      decoded ==
        IF type = TypeAddress THEN Return(decodeAddress(word))
        ELSE IF startsWith(type, TypeUint) \/ startsWith(type, TypeInt) THEN decodeUint256(word)
        ELSE IF type = TypeBool
        THEN Return(IF ParseIntHexIsOne(chunk) THEN <<"t","r","u","e">> ELSE <<"f","a","l","s","e">>)
        ELSE IF type = TypeBytes32 THEN Return(word)
        ELSE decodeUint256(word)
  IN  IF decoded.threw THEN decoded
      ELSE Return([type |-> type, raw |-> word, decoded |-> decoded.value])

\* the Utility operation decodeData, typeArray being the parsed type list
decodeData(data, typeArray) ==
  LET cleanData == replaceFirst(data, <<"0", "x">>)
      hasSelector == Len(cleanData) >= 8
      functionSelector == IF hasSelector THEN <<"0", "x">> \o slice(cleanData, 0, 8) ELSE <<>>
      paramData == IF hasSelector THEN slice(cleanData, 8, Len(cleanData)) ELSE cleanData
      chunks == Chunks(paramData)
      entries == [i \in 1..Len(chunks) |-> decodeDataChunk(chunks[i], typeArray, i)]
  IN  IF \E i \in 1..Len(chunks) : entries[i].threw THEN Throw("SyntaxError")
      ELSE Return([functionSelector |-> functionSelector,
                   parameterCount |-> Len(chunks),
                   decodedValues |-> [i \in 1..Len(chunks) |-> entries[i].value]])

\* parseLogData's loop from types[i] on, values being what is pushed so far
RECURSIVE parseLogDataFrom(_, _, _, _)
parseLogDataFrom(cleanData, types, i, values) ==
  IF i > Len(types) THEN Return(values)
  ELSE LET chunk == slice(cleanData, (i - 1) * 64, i * 64)
           type == types[i]
           word == <<"0", "x">> \o chunk
           value == IF type = TypeAddress THEN Return(decodeAddress(word))
                    ELSE IF startsWith(type, TypeUint) \/ startsWith(type, TypeInt)
                    THEN decodeUint256(word)
                    ELSE Return(word)
       IN  IF chunk = <<>> THEN Return(values)
           ELSE IF value.threw THEN value
           ELSE parseLogDataFrom(cleanData, types, i + 1, Append(values, value.value))

parseLogData(data, types) ==
  IF data = <<>> \/ data = <<"0", "x">> THEN Return(<<>>)
  ELSE parseLogDataFrom(replaceFirst(data, <<"0", "x">>), types, 1, <<>>)

(***************************************************************************)
(* Inputs of the unit conversion functions.                                *)
(***************************************************************************)
Decimals == (0..MaxDecimals) \cup {CRO_DECIMALS}

\* the decimal string of a small natural
DecStr(k) == [i \in 1..Len(NatDigits(k)) |-> HexChars[NatDigits(k)[i] + 1]]

\* strings over an alphabet, of length lo..hi
Strings(alphabet, lo, hi) == UNION {[1..k -> alphabet] : k \in lo..hi}

\* Wei amounts: a small natural followed by a run of zeros, so that amounts
\* of one whole unit and more exist at every decimal count
WeiValues ==
  {DecStr(n) \o Repeat("0", k) : n \in {1, 5, 15, 105}, k \in {0, 2} \cup {MaxDecimals}}
    \cup {<<"0">>, <<"1","0","0","5">>}

\* human-readable amounts: a whole part, and possibly a '.' and a fraction
HumanAmounts ==
  LET wholes == {<<"0">>, <<"1">>}
  IN  wholes \cup {w \o <<".">> \o f : w \in wholes, f \in Strings({"0", "9"}, 0, MaxFrac)}

UnitInputs ==
  {[fn |-> f, wei |-> w, decimals |-> d] :
      f \in {"weiToCro", "weiRoundTrip"}, w \in WeiValues, d \in Decimals}
  \cup {[fn |-> f, cro |-> x, decimals |-> d] :
      f \in {"croToWei", "croRoundTrip"}, x \in HumanAmounts, d \in Decimals}

(***************************************************************************)
(* Calls of the unit conversion functions: the initial state holds the     *)
(* arguments, the action applies the function.                             *)
(***************************************************************************)
InitUnits ==
  /\ pc = "ready"
  /\ input \in UnitInputs
  /\ locals = NoLocals
  /\ output = Return(<<>>)
  /\ requests = <<>>

\* weiToCro(wei, decimals)
CallWeiToCro ==
  /\ pc = "ready" /\ input.fn = "weiToCro"
  /\ \E divisor \in Pow10Doubles(input.decimals) :
       /\ locals' = weiToCroLocals(input.wei, input.decimals, divisor)
       /\ output' = weiToCro(input.wei, input.decimals, divisor)
  /\ pc' = "done"
  /\ UNCHANGED <<input, requests>>

\* croToWei(cro, decimals)
CallCroToWei ==
  /\ pc = "ready" /\ input.fn = "croToWei"
  /\ output' = croToWei(input.cro, input.decimals)
  /\ pc' = "done"
  /\ UNCHANGED <<input, locals, requests>>

\* croToWei(weiToCro(wei, decimals), decimals)
CallWeiRoundTrip ==
  /\ pc = "ready" /\ input.fn = "weiRoundTrip"
  /\ \E divisor \in Pow10Doubles(input.decimals) :
       LET human == weiToCro(input.wei, input.decimals, divisor)
       IN  /\ locals' = [weiToCroLocals(input.wei, input.decimals, divisor)
                           EXCEPT !.mid = human.value]
           /\ output' = IF human.threw THEN human
                        ELSE croToWei(human.value, input.decimals)
  /\ pc' = "done"
  /\ UNCHANGED <<input, requests>>

\* weiToCro(croToWei(cro, decimals), decimals), as convertUnits does from the
\* custom unit to the custom unit
CallCroRoundTrip ==
  /\ pc = "ready" /\ input.fn = "croRoundTrip"
  /\ \E divisor \in Pow10Doubles(input.decimals) :
       LET valueInWei == croToWei(input.cro, input.decimals)
       IN  /\ locals' = [weiToCroLocals(valueInWei.value, input.decimals, divisor)
                           EXCEPT !.mid = valueInWei.value]
           /\ output' = IF valueInWei.threw THEN valueInWei
                        ELSE weiToCro(valueInWei.value, input.decimals, divisor)
  /\ pc' = "done"
  /\ UNCHANGED <<input, requests>>

NextUnits ==
  \/ CallWeiToCro
  \/ CallCroToWei
  \/ CallWeiRoundTrip
  \/ CallCroRoundTrip

SpecUnits == InitUnits /\ [][NextUnits]_vars

(***************************************************************************)
(* Properties of the unit conversion, stated on the decimal digits alone:  *)
(* dividing by 10^d splits the digit string d places from its end.         *)
(***************************************************************************)
Done(fn) == pc = "done" /\ input.fn = fn

\* the digits of a canonical decimal string
DigitsOf(str) == [i \in 1..Len(str) |-> DigitValue(str[i])]

\* floor(w / 10^d) and w mod 10^d of the decimal string w, as digit strings
ExactWhole(w, d) == IF Len(w) > d THEN SubSeq(w, 1, Len(w) - d) ELSE <<"0">>

ExactFraction(w, d) ==
  LET padded == Repeat("0", d) \o w IN SubSeq(padded, Len(padded) - d + 1, Len(padded))

\* a string without its trailing / leading '0' characters
WithoutTrailingZeros(str) ==
  LET last == {k \in 1..Len(str) : str[k] # "0"}
  IN  IF last = {} THEN <<>> ELSE SubSeq(str, 1, CHOOSE k \in last : \A j \in last : j <= k)

WithoutLeadingZeros(str) ==
  LET first == {k \in 1..Len(str) : str[k] # "0"}
  IN  IF first = {} THEN <<"0">>
      ELSE SubSeq(str, CHOOSE k \in first : \A j \in first : k <= j, Len(str))

\* the rendering the specification asks of weiToHuman
ExactRendering(w, d) ==
  IF WithoutTrailingZeros(ExactFraction(w, d)) = <<>> THEN ExactWhole(w, d)
  ELSE ExactWhole(w, d) \o <<".">> \o WithoutTrailingZeros(ExactFraction(w, d))

\* the whole part and the fraction of a human-readable amount with at most
\* one '.'
DotAt(x) == {i \in 1..Len(x) : x[i] = "."}

WholeOf(x) == IF DotAt(x) = {} THEN x ELSE SubSeq(x, 1, Min(DotAt(x)) - 1)

FractionOf(x) == IF DotAt(x) = {} THEN <<>> ELSE SubSeq(x, Min(DotAt(x)) + 1, Len(x))

\* an amount as weiToHuman writes it: no '.' without a fraction, no trailing
\* zero in the fraction
CanonicalAmount(x) ==
  /\ WholeOf(x) = WithoutLeadingZeros(WholeOf(x))
  /\ DotAt(x) # {} => (FractionOf(x) # <<>> /\ FractionOf(x)[Len(FractionOf(x))] # "0")

\* 10 ** decimals came out as the integer 10^decimals
DivisorExact == locals.divisor = Pow10(input.decimals)

\* C1 (as claimed): Wei -> human -> Wei returns the Wei string, for every w
\* and every decimal count d >= 0.
C1_WeiRoundTripLossless ==
  Done("weiRoundTrip") => (~output.threw /\ output.value = input.wei)

\* C1, where the divisor is exact: the round trip is lossless.
C1_LosslessWhenDivisorExact ==
  (Done("weiRoundTrip") /\ DivisorExact) => (~output.threw /\ output.value = input.wei)

\* C3 (as claimed): the divisor of weiToCro is the integer 10^d, the whole
\* part is floor(w / 10^d) and the fractional part is w mod 10^d, for every d.
C3_WeiToCroExact ==
  Done("weiToCro") =>
    /\ locals.divisor = Pow10(input.decimals)
    /\ locals.wholePart.mag = DigitsOf(ExactWhole(input.wei, input.decimals))
    /\ locals.fractionalPart.mag =
         StripZeros(DigitsOf(ExactFraction(input.wei, input.decimals)))

\* C3, for the decimal counts whose power of ten a double holds: exact.
C3_ExactWhenRepresentable ==
  (Done("weiToCro") /\ Pow10Doubles(input.decimals) = {Pow10(input.decimals)})
    => /\ locals.divisor = Pow10(input.decimals)
       /\ locals.wholePart.mag = DigitsOf(ExactWhole(input.wei, input.decimals))
       /\ locals.fractionalPart.mag =
            StripZeros(DigitsOf(ExactFraction(input.wei, input.decimals)))

\* C4 (as claimed): weiToCro returns the whole part alone when w mod 10^d = 0,
\* and otherwise whole part, '.', the d-digit fraction without its trailing
\* zeros; the output never ends in '0' after a '.' and never ends in '.'.
C4_WeiToCroRendering ==
  Done("weiToCro") =>
    /\ ~output.threw
    /\ output.value = ExactRendering(input.wei, input.decimals)
    /\ output.value[Len(output.value)] # "."
    /\ DotAt(output.value) # {} => output.value[Len(output.value)] # "0"

\* C4, where the divisor is exact.
C4_RenderingWhenDivisorExact ==
  (Done("weiToCro") /\ DivisorExact) =>
    /\ ~output.threw
    /\ output.value = ExactRendering(input.wei, input.decimals)

\* C5: croToWei(x, d) is the integer written by the whole part followed by
\* exactly d fraction digits: digit i of the fraction where x has one, '0'
\* where it has none, and nothing of the digits beyond position d (no
\* rounding).
C5_CroToWeiTruncates ==
  Done("croToWei") =>
    /\ ~output.threw
    /\ output.value =
         WithoutLeadingZeros(
           WholeOf(input.cro)
             \o [i \in 1..input.decimals |->
                   IF i <= Len(FractionOf(input.cro)) THEN FractionOf(input.cro)[i] ELSE "0"])

\* C5's case: croToWei("1.999", 2) = "199", the third fraction digit dropped.
C5_Witness ==
  /\ Done("croToWei")
  /\ input.cro = <<"1", ".", "9", "9", "9">>
  /\ input.decimals = 2
  /\ output.value = <<"1", "9", "9">>

\* C6 (as claimed): human -> Wei -> human returns x, for every canonical x
\* with at most d fraction digits.
C6_CroRoundTripIdentity ==
  (/\ Done("croRoundTrip")
   /\ CanonicalAmount(input.cro)
   /\ Len(FractionOf(input.cro)) <= input.decimals)
    => (~output.threw /\ output.value = input.cro)

\* C6, where the divisor is exact.
C6_IdentityWhenDivisorExact ==
  (/\ Done("croRoundTrip")
   /\ DivisorExact
   /\ CanonicalAmount(input.cro)
   /\ Len(FractionOf(input.cro)) <= input.decimals)
    => (~output.threw /\ output.value = input.cro)

(***************************************************************************)
(* Calls of the base conversion functions.                                 *)
(***************************************************************************)
\* hex strings: nothing, a bare prefix, and digit runs with and without 0x
HexStrings ==
  {<<>>, <<"0", "x">>}
    \cup {prefix \o digits : prefix \in {<<>>, <<"0", "x">>},
                             digits \in Strings({"0", "1", "a", "F"}, 1, MaxHexLen)}

\* non-negative integers, as decimal strings and as Numbers
NaturalInputs ==
  {JsString(DecStr(k)) : k \in 0..MaxNat}
    \cup {JsNumber(k) : k \in 0..MaxNat}
    \cup {JsString(w) : w \in WeiValues}

\* what else decimalToHex is handed: signed, prefixed and malformed values
OtherInputs ==
  {JsString(<<"-">> \o DecStr(k)) : k \in 0..2}
    \cup {JsNumber(0 - k) : k \in 1..2}
    \cup {JsString(str) : str \in {<<"0","x","1","F">>, <<"f","f">>, <<"1",".","5">>, <<>>}}

HexInputs ==
  {[fn |-> "hexToDecimal", hex |-> h] : h \in HexStrings}
    \cup {[fn |-> "decimalToHex", decimal |-> v] : v \in NaturalInputs \cup OtherInputs}
    \cup {[fn |-> "hexRoundTrip", decimal |-> v] : v \in NaturalInputs}

InitHex ==
  /\ pc = "ready"
  /\ input \in HexInputs
  /\ locals = NoLocals
  /\ output = Return(<<>>)
  /\ requests = <<>>

\* hexToDecimal(hex)
CallHexToDecimal ==
  /\ pc = "ready" /\ input.fn = "hexToDecimal"
  /\ output' = hexToDecimal(input.hex)
  /\ pc' = "done"
  /\ UNCHANGED <<input, locals, requests>>

\* decimalToHex(decimal)
CallDecimalToHex ==
  /\ pc = "ready" /\ input.fn = "decimalToHex"
  /\ output' = decimalToHex(input.decimal)
  /\ pc' = "done"
  /\ UNCHANGED <<input, locals, requests>>

\* hexToDecimal(decimalToHex(decimal))
CallHexRoundTrip ==
  /\ pc = "ready" /\ input.fn = "hexRoundTrip"
  /\ LET hex == decimalToHex(input.decimal)
     IN  /\ locals' = [NoLocals EXCEPT !.mid = hex.value]
         /\ output' = IF hex.threw THEN hex ELSE hexToDecimal(hex.value)
  /\ pc' = "done"
  /\ UNCHANGED <<input, requests>>

NextHex ==
  \/ CallHexToDecimal
  \/ CallDecimalToHex
  \/ CallHexRoundTrip

SpecHex == InitHex /\ [][NextHex]_vars

(***************************************************************************)
(* Properties of the base conversion.  The expected values are computed    *)
(* with the model checker's own integers.                                  *)
(***************************************************************************)
\* the value of a short run of hex digits
RECURSIVE HexValue(_)
HexValue(digits) ==
  IF digits = <<>> THEN 0
  ELSE HexValue(SubSeq(digits, 1, Len(digits) - 1)) * 16 + DigitValue(digits[Len(digits)])

WithoutHexPrefix(str) == IF startsWith(str, <<"0", "x">>) THEN slice(str, 2, Len(str)) ELSE str

IsLowerHexDigit(c) == \E i \in 1..16 : HexChars[i] = c

\* C2: hexToDecimal(decimalToHex(n)) is the decimal string of n for every
\* non-negative integer n, and the hex form of 0 is "0x0".
C2_HexRoundTrip ==
  Done("hexRoundTrip") =>
    /\ ~output.threw
    /\ input.decimal.t = "string" => output.value = input.decimal.s
    /\ input.decimal.t = "number" => output.value = DecStr(input.decimal.n)
    /\ output.value = <<"0">> => locals.mid = <<"0", "x", "0">>

\* C2's case: n = 0 goes through "0x0" and comes back as "0".
C2_Witness ==
  /\ Done("hexRoundTrip")
  /\ input.decimal = JsString(<<"0">>)
  /\ locals.mid = <<"0", "x", "0">>
  /\ output.value = <<"0">>

\* C7 (as claimed): hexToDecimal gives "0" for "" and "0x", and for any other
\* string of hex digits, with or without 0x, the decimal rendering of the
\* unsigned hexadecimal value.
C7_HexToDecimalPrefixOptional ==
  Done("hexToDecimal") =>
    /\ ~output.threw
    /\ output.value = DecStr(HexValue(WithoutHexPrefix(input.hex)))

\* C7, for the inputs that carry the 0x prefix (and the empty string).
C7_PrefixedHexDecoded ==
  (Done("hexToDecimal") /\ (input.hex = <<>> \/ startsWith(input.hex, <<"0", "x">>))) =>
    /\ ~output.threw
    /\ output.value = DecStr(HexValue(WithoutHexPrefix(input.hex)))

\* C8 (as claimed): whenever decimalToHex accepts its input, it returns "0x"
\* followed by lowercase hex digits only (no sign), without a leading zero
\* unless the result is "0x0".
C8_DecimalToHexUnsigned ==
  (Done("decimalToHex") /\ ~output.threw) =>
    /\ startsWith(output.value, <<"0", "x">>)
    /\ Len(output.value) >= 3
    /\ \A i \in 3..Len(output.value) : IsLowerHexDigit(output.value[i])
    /\ output.value[3] = "0" => output.value = <<"0", "x", "0">>

\* C8, for the inputs that denote a non-negative integer.
C8_UnsignedForNaturals ==
  (Done("decimalToHex") /\ input.decimal \in NaturalInputs) =>
    /\ ~output.threw
    /\ startsWith(output.value, <<"0", "x">>)
    /\ Len(output.value) >= 3
    /\ \A i \in 3..Len(output.value) : IsLowerHexDigit(output.value[i])
    /\ output.value[3] = "0" => output.value = <<"0", "x", "0">>

(***************************************************************************)
(* Calls of the ABI encoders.                                              *)
(***************************************************************************)
Selectors ==
  {<<"0","x","a","9","0","5","9","c","b","b">>, <<"0","x","7","0","a","0","8","2","3","1">>}

\* a valid address in mixed case, and one that is too short
SomeAddress == <<"0", "x", "A", "b">> \o Repeat("0", 37) \o <<"F">>
ShortAddress == <<"0", "x", "1", "2">>

TRUE_STR == <<"t","r","u","e">>
FALSE_STR == <<"f","a","l","s","e">>

BoolValues ==
  {JsBoolean(TRUE), JsBoolean(FALSE), JsString(TRUE_STR), JsString(FALSE_STR),
   JsNumber(1), JsNumber(0), JsString(<<"1">>), JsString(<<"0">>)}

StaticParams ==
  {[type |-> TypeAddress, value |-> JsString(a)] : a \in {SomeAddress, ShortAddress}}
    \cup {[type |-> t, value |-> JsString(DecStr(MaxNat))] :
            t \in {TypeUint256, TypeUint, TypeInt256, TypeUint \o <<"8">>, TypeInt \o <<"1","2","8">>}}
    \cup {[type |-> TypeUint256, value |-> JsNumber(MaxNat)]}
    \cup {[type |-> TypeBool, value |-> v] : v \in BoolValues}
    \cup {[type |-> TypeBytes32, value |-> JsString(<<"0", "x", "a", "b">>)]}

DynamicParams == {[type |-> TypeString, value |-> JsString(<<"h", "i">>)]}

\* valid addresses in lower, upper and mixed case
ValidAddresses ==
  {<<"0", "x">> \o Repeat(c, 38) \o <<d, e>> :
     c \in {"0", "a", "F"}, d \in {"1", "b", "C"}, e \in {"9", "e", "D"}}

ParamLists ==
  UNION {[1..k -> StaticParams \cup DynamicParams] : k \in 0..MaxParams}
    \cup {<<[type |-> TypeAddress, value |-> JsString(a)]>> : a \in ValidAddresses}

EncodeInputs ==
  {[fn |-> f, functionSignature |-> sel, params |-> ps] :
     f \in {"encodeFunctionCall", "encodeFunction"}, sel \in Selectors, ps \in ParamLists}

InitEncode ==
  /\ pc = "ready"
  /\ input \in EncodeInputs
  /\ locals = NoLocals
  /\ output = Return(<<>>)
  /\ requests = <<>>

\* encodeFunctionCall(functionSignature, params)
CallEncodeFunctionCall ==
  /\ pc = "ready" /\ input.fn = "encodeFunctionCall"
  /\ output' = encodeFunctionCall(input.functionSignature, input.params)
  /\ pc' = "done"
  /\ UNCHANGED <<input, locals, requests>>

\* the Utility operation encodeFunction
CallEncodeFunction ==
  /\ pc = "ready" /\ input.fn = "encodeFunction"
  /\ output' = encodeFunction(input.functionSignature, input.params)
  /\ pc' = "done"
  /\ UNCHANGED <<input, locals, requests>>

NextEncode ==
  \/ CallEncodeFunctionCall
  \/ CallEncodeFunction

SpecEncode == InitEncode /\ [][NextEncode]_vars

(***************************************************************************)
(* Properties of the ABI encoders.                                         *)
(***************************************************************************)
Encoded == pc = "done" /\ input.fn \in {"encodeFunctionCall", "encodeFunction"}

IsStaticType(t) ==
  \/ t \in {TypeAddress, TypeBool, TypeBytes32}
  \/ startsWith(t, TypeUint)
  \/ startsWith(t, TypeInt)

AllStatic(params) == \A i \in 1..Len(params) : IsStaticType(params[i].type)

ZeroWord == Repeat("0", 64)
OneWord == Repeat("0", 63) \o <<"1">>

\* C9 (as claimed): for a list of N static parameters either encoder returns
\* the selector followed by exactly 64*N hex characters.
C9_OneWordPerStaticParam ==
  (Encoded /\ AllStatic(input.params)) =>
    /\ ~output.threw
    /\ startsWith(output.value, input.functionSignature)
    /\ Len(output.value) = Len(input.functionSignature) + 64 * Len(input.params)
    /\ \A i \in (Len(input.functionSignature) + 1)..Len(output.value) :
         DigitValue(output.value[i]) < 16

\* C9, for the types encodeFunctionCall names and values that are well formed:
\* the length is that of the selector plus 64 per parameter.
C9_OneWordPerKnownType ==
  (/\ Encoded
   /\ \A i \in 1..Len(input.params) :
        /\ input.params[i].type \in {TypeAddress, TypeUint256, TypeUint, TypeInt256,
                                     TypeBool, TypeBytes32}
        /\ input.params[i].value # JsString(ShortAddress))
  => /\ ~output.threw
     /\ Len(output.value) = Len(input.functionSignature) + 64 * Len(input.params)

\* C10 (as claimed): a bool parameter is encoded as the word of value 1
\* exactly when its value is one of true, "true", 1, "1", and as the zero
\* word otherwise.
C10_BoolWord ==
  (Encoded /\ Len(input.params) = 1 /\ input.params[1].type = TypeBool) =>
    /\ ~output.threw
    /\ output.value = input.functionSignature
         \o (IF input.params[1].value \in
                  {JsBoolean(TRUE), JsString(TRUE_STR), JsNumber(1), JsString(<<"1">>)}
             THEN OneWord ELSE ZeroWord)

\* C10, for the values on which both encoders agree with the claim.
C10_BoolWordOnStrings ==
  (/\ Encoded /\ Len(input.params) = 1 /\ input.params[1].type = TypeBool
   /\ input.params[1].value \in {JsString(TRUE_STR), JsString(<<"1">>)})
  => output.value = input.functionSignature \o OneWord

\* C11: one valid address parameter, in any letter case, after a 4-byte
\* selector is encoded as the 10-character selector followed by 24 '0'
\* characters and the 40 hex digits of the address in lower case.
C11_AddressWord ==
  (/\ Encoded /\ Len(input.params) = 1 /\ input.params[1].type = TypeAddress
   /\ input.params[1].value.t = "string"
   /\ Len(input.params[1].value.s) = 42
   /\ SubSeq(input.params[1].value.s, 1, 2) = <<"0", "x">>
   /\ \A i \in 3..42 : DigitValue(input.params[1].value.s[i]) < 16)
  => /\ ~output.threw
     /\ Len(input.functionSignature) = 10
     /\ Len(output.value) = 74
     /\ SubSeq(output.value, 1, 10) = input.functionSignature
     /\ \A i \in 11..34 : output.value[i] = "0"
     /\ \A i \in 1..40 :
          /\ IsLowerHexDigit(output.value[34 + i])
          /\ DigitValue(output.value[34 + i]) = DigitValue(input.params[1].value.s[2 + i])

\* C11's case: a mixed-case address encoded by encodeFunctionCall.
C11_Witness ==
  /\ Encoded /\ input.fn = "encodeFunctionCall"
  /\ input.params = <<[type |-> TypeAddress, value |-> JsString(SomeAddress)]>>
  /\ output.value = input.functionSignature \o Repeat("0", 24)
                      \o <<"a", "b">> \o Repeat("0", 37) \o <<"f">>

(***************************************************************************)
(* Calls of the ABI decoders.                                              *)
(***************************************************************************)
\* 32-byte words: an address, a small number, the number 1
AddressWord == Repeat("0", 24) \o <<"5", "c", "7", "F">> \o Repeat("8", 35) \o <<"3">>
Words == {AddressWord, Repeat("0", 62) \o <<"2", "a">>, Repeat("0", 63) \o <<"1">>}

DecodeTypes == {TypeAddress, TypeUint256, TypeBool, TypeBytes32, TypeString}

TypeLists(n) == UNION {[1..k -> DecodeTypes] : k \in 0..n}

\* k words one after the other
RECURSIVE Concat(_)
Concat(ws) == IF ws = <<>> THEN <<>> ELSE Head(ws) \o Concat(Tail(ws))

WordRuns(n) == {Concat(ws) : ws \in UNION {[1..k -> Words] : k \in 0..n}}

\* raw data of whole words; data ending in a partial word; call data with a
\* selector in front; data shorter than a selector
DataAndTypes ==
  {[data |-> <<"0", "x">> \o body, types |-> ts] : body \in WordRuns(MaxWords), ts \in TypeLists(MaxParams)}
    \cup {[data |-> prefix \o body \o tail, types |-> ts] :
            prefix \in {<<>>, <<"0", "x">>}, body \in WordRuns(1),
            tail \in {<<"0", "1">>, <<"f", "f", "0">>}, ts \in TypeLists(MaxParams)}
    \cup {[data |-> sel \o body, types |-> ts] :
            sel \in Selectors, body \in WordRuns(1), ts \in TypeLists(1)}
    \cup {[data |-> d, types |-> ts] :
            d \in {<<>>, <<"0", "x">>, <<"0", "x", "0", "1">>}, ts \in TypeLists(1)}

DecodeInputs ==
  {[fn |-> f, data |-> d.data, types |-> d.types] :
     f \in {"decodeData", "parseLogData"}, d \in DataAndTypes}

InitDecode ==
  /\ pc = "ready"
  /\ input \in DecodeInputs
  /\ locals = NoLocals
  /\ output = Return(<<>>)
  /\ requests = <<>>

\* the Utility operation decodeData
CallDecodeData ==
  /\ pc = "ready" /\ input.fn = "decodeData"
  /\ output' = decodeData(input.data, input.types)
  /\ pc' = "done"
  /\ UNCHANGED <<input, locals, requests>>

\* parseLogData(data, types)
CallParseLogData ==
  /\ pc = "ready" /\ input.fn = "parseLogData"
  /\ output' = parseLogData(input.data, input.types)
  /\ pc' = "done"
  /\ UNCHANGED <<input, locals, requests>>

NextDecode ==
  \/ CallDecodeData
  \/ CallParseLogData

SpecDecode == InitDecode /\ [][NextDecode]_vars

(***************************************************************************)
(* Properties of the ABI decoders.                                         *)
(***************************************************************************)
\* the data without its 0x prefix
CleanData == IF startsWith(input.data, <<"0", "x">>) THEN slice(input.data, 2, Len(input.data)) ELSE input.data

\* characters 64*(i-1) .. 64*i - 1 of the data, zero-padded on the right
WordOf(str, i) == [k \in 1..64 |-> IF 64 * (i - 1) + k <= Len(str) THEN str[64 * (i - 1) + k] ELSE "0"]

WordCount(str) == (Len(str) + 63) \div 64

\* C12 (as claimed): given raw data (whole words, no selector in front)
\* decodeData strips nothing: there is no selector in the output, output word
\* i is characters 64*i .. 64*i+63 of the input, and a lone address word
\* decodes to that address.
C12_RawDataNotStripped ==
  (Done("decodeData") /\ Len(CleanData) > 0 /\ Len(CleanData) % 64 = 0) =>
    /\ ~output.threw
    /\ output.value.functionSelector = <<>>
    /\ output.value.parameterCount = Len(CleanData) \div 64
    /\ \A i \in 1..output.value.parameterCount :
         output.value.decodedValues[i].raw = <<"0", "x">> \o WordOf(CleanData, i)
    /\ (CleanData = AddressWord /\ input.types = <<TypeAddress>>) =>
         output.value.decodedValues[1].decoded
           = <<"0", "x">> \o toLowerCase(SubSeq(AddressWord, 25, 64))

\* C12, for call data: a selector in front of whole words is removed and the
\* words after it are decoded in place.
C12_SelectorStrippedFromCallData ==
  (Done("decodeData") /\ Len(CleanData) % 64 = 8) =>
    /\ ~output.threw
    /\ output.value.functionSelector = <<"0", "x">> \o SubSeq(CleanData, 1, 8)
    /\ output.value.parameterCount = Len(CleanData) \div 64
    /\ \A i \in 1..output.value.parameterCount :
         output.value.decodedValues[i].raw
           = <<"0", "x">> \o SubSeq(CleanData, 8 + 64 * (i - 1) + 1, 8 + 64 * i)

Decoded == pc = "done" /\ input.fn \in {"decodeData", "parseLogData"}

\* the hex characters a decoder walks: decodeData first takes 8 characters
\* off data that has them
Walked ==
  IF input.fn = "decodeData" /\ Len(CleanData) >= 8 THEN slice(CleanData, 8, Len(CleanData))
  ELSE CleanData

\* the decoded values, in output order
ValuesOut ==
  IF input.fn = "decodeData"
  THEN [i \in 1..Len(output.value.decodedValues) |-> output.value.decodedValues[i].decoded]
  ELSE output.value

TypeAt(i) == IF i <= Len(input.types) THEN input.types[i] ELSE TypeUnknown

AsUnsigned(word) == decodeUint256(<<"0", "x">> \o word).value

\* what a whole 64-character word of the given type decodes to
DecodeWordAs(fn, type, word) ==
  IF type = TypeAddress THEN <<"0", "x">> \o toLowerCase(SubSeq(word, 25, 64))
  ELSE IF startsWith(type, TypeUint) \/ startsWith(type, TypeInt) THEN AsUnsigned(word)
  ELSE IF fn = "parseLogData" THEN <<"0", "x">> \o word
  ELSE IF type = TypeBool
  THEN (IF word = Repeat("0", 63) \o <<"1">> THEN <<"t","r","u","e">> ELSE <<"f","a","l","s","e">>)
  ELSE IF type = TypeBytes32 THEN <<"0", "x">> \o word
  ELSE AsUnsigned(word)

\* C13 (as claimed): when the walked data ends in a partial word, that word
\* is right-padded with '0' to 64 characters and decoded like a whole word,
\* by decodeData and by parseLogData (which is given a type for it).
C13_PartialWordPadded ==
  (/\ Decoded /\ Len(Walked) % 64 # 0
   /\ input.fn = "parseLogData" => Len(input.types) >= WordCount(Walked))
  => /\ ~output.threw
     /\ Len(ValuesOut) = WordCount(Walked)
     /\ ValuesOut[WordCount(Walked)]
          = DecodeWordAs(input.fn, TypeAt(WordCount(Walked)), WordOf(Walked, WordCount(Walked)))

\* C13, for decodeData alone: every entry is a 64-character word, the last
\* one right-padded, and is decoded as such.
C13_DecodeDataPadsPartialWord ==
  (Done("decodeData") /\ Len(Walked) % 64 # 0) =>
    /\ ~output.threw
    /\ Len(ValuesOut) = WordCount(Walked)
    /\ \A i \in 1..WordCount(Walked) :
         /\ output.value.decodedValues[i].raw = <<"0", "x">> \o WordOf(Walked, i)
         /\ ValuesOut[i] = DecodeWordAs("decodeData", TypeAt(i), WordOf(Walked, i))

\* C14 (as claimed): over data of whole words, decodeData and parseLogData
\* emit exactly one value per word in input order, word i decoded with type
\* i, and every word beyond the types as an unsigned integer.
C14_OneValuePerWord ==
  (Decoded /\ Len(Walked) % 64 = 0) =>
    /\ ~output.threw
    /\ Len(ValuesOut) = Len(Walked) \div 64
    /\ \A i \in 1..Len(ValuesOut) :
         ValuesOut[i] = IF i <= Len(input.types)
                        THEN DecodeWordAs(input.fn, input.types[i], WordOf(Walked, i))
                        ELSE AsUnsigned(WordOf(Walked, i))

\* C14, for decodeData alone.
C14_DecodeDataPositional ==
  (Done("decodeData") /\ Len(Walked) % 64 = 0) =>
    /\ ~output.threw
    /\ Len(ValuesOut) = Len(Walked) \div 64
    /\ \A i \in 1..Len(ValuesOut) :
         ValuesOut[i] = IF i <= Len(input.types)
                        THEN DecodeWordAs("decodeData", input.types[i], WordOf(Walked, i))
                        ELSE AsUnsigned(WordOf(Walked, i))

(***************************************************************************)
(* Calls of the format validators.                                         *)
(***************************************************************************)
\* digit runs around the two accepted lengths, with and without the prefix,
\* in either case, clean or with one character that is no hex digit
FormatStrings ==
  {prefix \o Repeat(c, n) \o suffix :
     prefix \in {<<>>, <<"0", "x">>, <<"0", "X">>},
     c \in {"0", "a", "F"},
     n \in {0, 38, 39, 40, 41, 62, 63, 64, 65},
     suffix \in {<<>>, <<"9">>, <<"g">>, <<"E", "d">>}}
    \cup {<<"0", "x">> \o bad \o Repeat(c, n) :
            bad \in {<<"g">>, <<"x">>, <<"-">>}, c \in {"0", "a", "F"}, n \in {39, 63}}

FormatInputs ==
  {[fn |-> f, str |-> str] : f \in {"isValidAddress", "isValidTxHash"}, str \in FormatStrings}

InitFormat ==
  /\ pc = "ready"
  /\ input \in FormatInputs
  /\ locals = NoLocals
  /\ output = Return(<<>>)
  /\ requests = <<>>

\* isValidAddress(address)
CallIsValidAddress ==
  /\ pc = "ready" /\ input.fn = "isValidAddress"
  /\ output' = Return(isValidAddress(input.str))
  /\ pc' = "done"
  /\ UNCHANGED <<input, locals, requests>>

\* isValidTxHash(hash)
CallIsValidTxHash ==
  /\ pc = "ready" /\ input.fn = "isValidTxHash"
  /\ output' = Return(isValidTxHash(input.str))
  /\ pc' = "done"
  /\ UNCHANGED <<input, locals, requests>>

NextFormat ==
  \/ CallIsValidAddress
  \/ CallIsValidTxHash

SpecFormat == InitFormat /\ [][NextFormat]_vars

HexDigitSet ==
  {"0","1","2","3","4","5","6","7","8","9","a","b","c","d","e","f","A","B","C","D","E","F"}

\* str is "0x" followed by exactly n hex digits
IsPrefixedHex(str, n) ==
  /\ Len(str) = n + 2
  /\ str[1] = "0" /\ str[2] = "x"
  /\ \A i \in 3..(n + 2) : str[i] \in HexDigitSet

\* C15: isValidAddress(s) is true exactly when s is "0x" followed by 40 hex
\* digits of either case and nothing else, and isValidTxHash(s) exactly when
\* s is "0x" followed by 64 hex digits and nothing else.
C15_FormatValidators ==
  /\ Done("isValidAddress") => (output.value <=> IsPrefixedHex(input.str, 40))
  /\ Done("isValidTxHash") => (output.value <=> IsPrefixedHex(input.str, 64))

\* C15's case: a hash of 64 mixed-case digits plus one more is rejected and
\* an address of 40 digits is accepted.
C15_Witness ==
  \/ /\ Done("isValidTxHash")
     /\ input.str = <<"0", "x">> \o Repeat("a", 63) \o <<"E", "d">>
     /\ output.value = FALSE
  \/ /\ Done("isValidAddress")
     /\ input.str = <<"0", "x">> \o Repeat("F", 39) \o <<"9">>
     /\ output.value = TRUE

(***************************************************************************)
(* Dynamic strings in eth_call results.  A decoded character is a          *)
(* one-character string; the control characters are written "^@" (NUL),    *)
(* "\t", "\n", "\r" and "^n", as are the quote, backslash and backtick.     *)
(***************************************************************************)
\* the characters of the codes 0..127, Ascii[code + 1]
Ascii ==
  <<
    "^@", "^1", "^2", "^3", "^4", "^5", "^6", "^7",
    "^8", "\t", "\n", "^11", "^12", "\r", "^14", "^15",
    "^16", "^17", "^18", "^19", "^20", "^21", "^22", "^23",
    "^24", "^25", "^26", "^27", "^28", "^29", "^30", "^31",
    " ", "!", "^34", "#", "$", "%", "&", "'",
    "(", ")", "*", "+", ",", "-", ".", "/",
    "0", "1", "2", "3", "4", "5", "6", "7",
    "8", "9", ":", ";", "<", "=", ">", "?",
    "@", "A", "B", "C", "D", "E", "F", "G",
    "H", "I", "J", "K", "L", "M", "N", "O",
    "P", "Q", "R", "S", "T", "U", "V", "W",
    "X", "Y", "Z", "[", "^92", "]", "^", "_",
    "^96", "a", "b", "c", "d", "e", "f", "g",
    "h", "i", "j", "k", "l", "m", "n", "o",
    "p", "q", "r", "s", "t", "u", "v", "w",
    "x", "y", "z", "{", "|", "}", "~", "^127"
  >>

NUL == Ascii[1]

\* what a byte of 0x80 or more decodes to on its own: U+FFFD
ReplacementChar == "U+FFFD"

\* a number no string length reaches: the model's stand-in for every larger one
Huge == 1000000

\* a canonical digit sequence as a native number, Huge when it is that large
RECURSIVE SmallNat(_)
SmallNat(ds) ==
  IF Len(ds) > 6 THEN Huge
  ELSE IF Len(ds) = 1 THEN ds[1]
  ELSE SmallNat(SubSeq(ds, 1, Len(ds) - 1)) * 10 + ds[Len(ds)]

\* parseInt(str, 16): NaN when str does not start with a hex digit
parseIntHex(str) ==
  LET digits == ParseIntDigits(str)
  IN  IF digits = <<>> THEN [nan |-> TRUE, n |-> 0]
      ELSE [nan |-> FALSE, n |-> SmallNat(ParseRadix(digits, 16))]

\* Buffer.from(hex, 'hex'): the bytes of the leading pairs of hex digits
BufferFromHex(hex) ==
  LET n == CHOOSE k \in 0..(Len(hex) \div 2) :
             /\ \A i \in 1..(2 * k) : DigitValue(hex[i]) < 16
             /\ (k = Len(hex) \div 2
                   \/ DigitValue(hex[2 * k + 1]) >= 16 \/ DigitValue(hex[2 * k + 2]) >= 16)
  IN  [i \in 1..n |-> DigitValue(hex[2 * i - 1]) * 16 + DigitValue(hex[2 * i])]

\* buffer.toString('utf8'), on bytes that are ASCII or stand alone
Utf8ToString(bytes) ==
  [i \in 1..Len(bytes) |-> IF bytes[i] < 128 THEN Ascii[bytes[i] + 1] ELSE ReplacementChar]

\* str.replace(/\0/g, '')
RECURSIVE dropNulls(_)
dropNulls(str) ==
  IF str = <<>> THEN <<>>
  ELSE IF Head(str) = NUL THEN dropNulls(Tail(str))
  ELSE <<Head(str)>> \o dropNulls(Tail(str))

\* the name or symbol a token-info call site reads from an eth_call result:
\* hexStr.slice(64, 128) as the length, the payload from character 128
\* (getTokenBalances, getTokenInfo, getCollectionInfo); current is kept when
\* the result is shorter than two words
decodeNameResult(result, current) ==
  LET hexStr == replaceFirst(result, <<"0", "x">>)
      length == parseIntHex(slice(hexStr, 64, 128))
      nameHex == IF length.nan THEN <<>> ELSE slice(hexStr, 128, 128 + length.n * 2)
  IN  IF Len(result) > 2 /\ Len(hexStr) >= 128
      THEN dropNulls(Utf8ToString(BufferFromHex(nameHex)))
      ELSE current

\* the token URI getNFTMetadata reads from an eth_call result: the first word
\* as the offset, the word there as the length, the payload after it
decodeTokenURIResult(result) ==
  LET hexStr == replaceFirst(result, <<"0", "x">>)
      first == parseIntHex(slice(hexStr, 0, 64))
      offset == IF first.nan THEN 0 ELSE first.n * 2
      length == parseIntHex(IF first.nan THEN <<>> ELSE slice(hexStr, offset, offset + 64))
      uriHex == IF first.nan \/ length.nan THEN <<>>
                ELSE slice(hexStr, offset + 64, offset + 64 + length.n * 2)
  IN  IF Len(result) > 2 /\ Len(hexStr) >= 128
      THEN Utf8ToString(BufferFromHex(uriHex))
      ELSE <<>>

(***************************************************************************)
(* Operation handlers.  A handler runs from "ready" to its first request   *)
(* ("awaiting"), takes the JSON-RPC response of each request it awaits,    *)
(* and ends in "done" with what it returns or throws.  requests is the     *)
(* sequence of JSON-RPC requests issued so far.                            *)
(***************************************************************************)
Latest == <<"l","a","t","e","s","t">>
Earliest == <<"e","a","r","l","i","e","s","t">>
Pending == <<"p","e","n","d","i","n","g">>
All == <<"a","l","l">>

\* a JSON-RPC response: an error object, or a result
RpcError == [error |-> TRUE, result |-> <<>>]
RpcResult(r) == [error |-> FALSE, result |-> r]

\* the handler's progress: the number of responses taken, the results so far
HandlerLocals == [stage |-> 0, got |-> <<>>, idx |-> 1, balances |-> <<>>]

\* jsonRpcRequest up to its await: the request is sent
Send(method, params) == Append(requests, [method |-> method, params |-> params])

\* weiToCro(gasPriceWei, 9), gasPriceWei being hexToDecimal(gasPrice)
formatGasPriceWei(gasPriceWei) ==
  IF gasPriceWei.threw THEN gasPriceWei
  ELSE weiToCro(gasPriceWei.value, 9, Pow10(9))

\* formatGasPrice(gasPrice)
formatGasPrice(gasPrice) == formatGasPriceWei(hexToDecimal(gasPrice))

\* getBalance up to its request
GetBalanceStart ==
  /\ pc = "ready" /\ input.fn = "getBalance"
  /\ IF ~isValidAddress(input.address)
     THEN /\ output' = Throw("Invalid address format")
          /\ pc' = "done"
          /\ UNCHANGED requests
     ELSE /\ requests' = Send("eth_getBalance", [address |-> input.address, block |-> input.blockParameter])
          /\ pc' = "awaiting"
          /\ UNCHANGED output
  /\ UNCHANGED <<input, locals>>

\* getBalance from the response on
GetBalanceRespond(response) ==
  /\ pc = "awaiting" /\ input.fn = "getBalance"
  /\ IF response.error
     THEN output' = Throw("NodeApiError")
     ELSE \E balanceDecimal \in {hexToDecimal(response.result)} :
            IF balanceDecimal.threw
            THEN output' = balanceDecimal
            ELSE \E divisor \in Pow10Doubles(CRO_DECIMALS) :
                   \E balanceCro \in {weiToCro(balanceDecimal.value, CRO_DECIMALS, divisor)} :
                     output' = IF balanceCro.threw THEN balanceCro
                               ELSE Return([address |-> input.address,
                                            balanceWei |-> balanceDecimal.value,
                                            balanceCro |-> balanceCro.value,
                                            blockParameter |-> input.blockParameter])
  /\ pc' = "done"
  /\ locals' = [locals EXCEPT !.stage = 1]
  /\ UNCHANGED <<input, requests>>

\* fromBlock / toBlock of a log filter: a tag as it is, a number in hex
BlockParam(block) ==
  IF block \in {JsString(Latest), JsString(Earliest), JsString(Pending)} THEN Return(block.s)
  ELSE decimalToHex(block)

\* getLogs up to its request (topics empty)
GetLogsStart ==
  /\ pc = "ready" /\ input.fn = "getLogs"
  /\ LET fromBlock == BlockParam(input.fromBlock)
         toBlock == BlockParam(input.toBlock)
         blocks == [fromBlock |-> fromBlock.value, toBlock |-> toBlock.value]
         filterParams == IF input.address # <<>> /\ isValidAddress(input.address)
                         THEN [fromBlock |-> fromBlock.value, toBlock |-> toBlock.value,
                               address |-> input.address]
                         ELSE blocks
     IN  IF fromBlock.threw \/ toBlock.threw
         THEN /\ output' = Throw("SyntaxError")
              /\ pc' = "done"
              /\ UNCHANGED requests
         ELSE /\ requests' = Send("eth_getLogs", filterParams)
              /\ pc' = "awaiting"
              /\ UNCHANGED output
  /\ UNCHANGED <<input, locals>>

\* getLogs from the response on, the node returning no logs
GetLogsRespond(response) ==
  /\ pc = "awaiting" /\ input.fn = "getLogs"
  /\ output' = IF response.error THEN Throw("NodeApiError")
               ELSE Return([fromBlock |-> input.fromBlock,
                            toBlock |-> input.toBlock,
                            address |-> IF input.address # <<>> THEN input.address ELSE All,
                            logCount |-> Len(response.result),
                            logs |-> response.result])
  /\ pc' = "done"
  /\ locals' = [locals EXCEPT !.stage = 1]
  /\ UNCHANGED <<input, requests>>

\* decimalToHex(croToWei(value)), wei being what croToWei gave
decimalToHexOfWei(wei) ==
  IF wei.threw THEN wei ELSE decimalToHex(JsString(wei.value))

\* the transaction object of eth_estimateGas
TxObject(to, data, hasFrom, from, hasValue, value) ==
  IF hasFrom /\ hasValue THEN [to |-> to, data |-> data, from |-> from, value |-> value]
  ELSE IF hasFrom THEN [to |-> to, data |-> data, from |-> from]
  ELSE IF hasValue THEN [to |-> to, data |-> data, value |-> value]
  ELSE [to |-> to, data |-> data]

\* estimateGas up to its first request
EstimateGasStart ==
  /\ pc = "ready" /\ input.fn = "estimateGas"
  /\ IF ~isValidAddress(input.to)
     THEN /\ output' = Throw("Invalid recipient address")
          /\ pc' = "done"
          /\ UNCHANGED requests
     ELSE \E hasFrom \in {input.from # <<>> /\ isValidAddress(input.from)},
             hasValue \in {input.value # <<>> /\ input.value # <<"0">>} :
            \E value \in {IF hasValue THEN decimalToHexOfWei(croToWei(input.value, CRO_DECIMALS))
                                      ELSE Return(<<>>)} :
              IF value.threw
              THEN /\ output' = Throw("SyntaxError")
                   /\ pc' = "done"
                   /\ UNCHANGED requests
              ELSE /\ requests' = Send("eth_estimateGas",
                                       TxObject(input.to,
                                                IF input.data # <<>> THEN input.data
                                                                     ELSE <<"0", "x">>,
                                                hasFrom, input.from, hasValue, value.value))
                   /\ pc' = "awaiting"
                   /\ UNCHANGED output
  /\ UNCHANGED <<input, locals>>

\* estimateGas from the response to eth_estimateGas to its second request
EstimateGasRespond(response) ==
  /\ pc = "awaiting" /\ input.fn = "estimateGas" /\ locals.stage = 0
  /\ IF response.error
     THEN /\ output' = Throw("NodeApiError")
          /\ pc' = "done"
          /\ UNCHANGED requests
     ELSE /\ requests' = Send("eth_gasPrice", <<>>)
          /\ UNCHANGED <<pc, output>>
  /\ locals' = [locals EXCEPT !.stage = 1, !.got = <<response.result>>]
  /\ UNCHANGED input

\* estimateGas from the response to eth_gasPrice on
EstimateGasPrice(response) ==
  /\ pc = "awaiting" /\ input.fn = "estimateGas" /\ locals.stage = 1
  /\ IF response.error
     THEN output' = Throw("NodeApiError")
     ELSE \E gasDecimal \in {hexToDecimal(locals.got[1])},
             gasPriceDecimal \in {hexToDecimal(response.result)} :
            IF gasDecimal.threw THEN output' = gasDecimal
            ELSE IF gasPriceDecimal.threw THEN output' = gasPriceDecimal
            ELSE \E estimatedFeeWei \in
                      {BigIntToString(BigIntMul(StringToBigInt(gasDecimal.value),
                                                StringToBigInt(gasPriceDecimal.value)), 10)} :
                   output' = Return([estimatedGas |-> gasDecimal.value,
                                     gasPrice |-> formatGasPriceWei(gasPriceDecimal).value,
                                     gasPriceWei |-> gasPriceDecimal.value,
                                     estimatedFee |-> weiToCro(estimatedFeeWei, CRO_DECIMALS,
                                                               Pow10(CRO_DECIMALS)).value,
                                     estimatedFeeWei |-> estimatedFeeWei])
  /\ pc' = "done"
  /\ locals' = [locals EXCEPT !.stage = 2, !.got = Append(locals.got, response.result)]
  /\ UNCHANGED <<input, requests>>

\* tokenAddresses.split(','): the pieces between the commas
RECURSIVE splitCommaFrom(_, _)
splitCommaFrom(str, start) ==
  LET commas == {i \in start..Len(str) : str[i] = ","}
  IN  IF commas = {} THEN << SubSeq(str, start, Len(str)) >>
      ELSE << SubSeq(str, start, Min(commas) - 1) >> \o splitCommaFrom(str, Min(commas) + 1)

\* String.prototype.trim, the white space of the model being the blank
trim(str) ==
  LET inked == {i \in 1..Len(str) : str[i] # " "}
  IN  IF inked = {} THEN <<>>
      ELSE SubSeq(str, Min(inked), CHOOSE i \in inked : \A j \in inked : j <= i)

\* tokenAddresses.split(',').map((t) => t.trim()).filter((t) => t)
TokensOf(tokenAddresses) ==
  LET pieces == splitCommaFrom(tokenAddresses, 1)
  IN  SelectSeq([i \in 1..Len(pieces) |-> trim(pieces[i])], LAMBDA t : t # <<>>)

BalanceOfSelector == <<"0","x","7","0","a","0","8","2","3","1">>
DecimalsSelector == <<"0","x","3","1","3","c","e","5","6","7">>
SymbolSelector == <<"0","x","9","5","d","8","9","b","4","1">>
NameSelector == <<"0","x","0","6","f","d","d","e","0","3">>

\* let decimals = 18
DefaultTokenDecimals == 18

Unknown == <<"U","N","K","N","O","W","N">>
UnknownToken == <<"U","n","k","n","o","w","n"," ","T","o","k","e","n">>

\* the first index from `from` on of a token that passes isValidAddress, 0 if
\* there is none: the tokens in between are passed over by `continue`
NextToken(tokens, from) ==
  LET valid == {i \in from..Len(tokens) : isValidAddress(tokens[i])}
  IN  IF valid = {} THEN 0 ELSE Min(valid)

\* getTokenBalances' loop from tokens[from] on: the next eth_call for a
\* balance, or the return when no token is left
TokenLoop(from, balances) ==
  \E tokens \in {TokensOf(input.tokenAddresses)} :
    \E i \in {NextToken(tokens, from)} :
      IF i = 0
      THEN /\ output' = Return([address |-> input.address,
                                tokenBalances |-> balances,
                                tokenCount |-> Len(balances)])
           /\ pc' = "done"
           /\ locals' = [locals EXCEPT !.balances = balances]
           /\ UNCHANGED requests
      ELSE \E callData \in {encodeFunctionCall(BalanceOfSelector,
                                <<[type |-> TypeAddress, value |-> JsString(input.address)]>>)} :
             /\ requests' = Send("eth_call", [to |-> tokens[i], data |-> callData.value])
             /\ pc' = "awaiting"
             /\ locals' = [stage |-> 0, got |-> <<>>, idx |-> i, balances |-> balances]
             /\ UNCHANGED output

\* the token the loop is at
CurrentToken == TokensOf(input.tokenAddresses)[locals.idx]

\* the entry pushed when the outer try threw
FailedEntry(tokenAddress) ==
  [tokenAddress |-> tokenAddress, error |-> "Failed to fetch balance"]

\* the entry getTokenBalances pushes for the current token, formattedBalance
\* being what weiToCro(balance, decimals) gave
TokenEntry(tokenAddress, balance, decimals, symbol, name, formattedBalance) ==
  IF formattedBalance.threw
  THEN FailedEntry(tokenAddress)
  ELSE [tokenAddress |-> tokenAddress, name |-> name, symbol |-> symbol,
        decimals |-> decimals, balanceRaw |-> balance,
        balance |-> formattedBalance.value]

\* the current token is done with these values: push its entry and go on
TokenDone(balance, decimals, symbol, name) ==
  \E divisor \in Pow10Doubles(decimals) :
    \E formattedBalance \in {weiToCro(balance, decimals, divisor)} :
      TokenLoop(locals.idx + 1,
                Append(locals.balances,
                       TokenEntry(CurrentToken, balance, decimals, symbol, name,
                                  formattedBalance)))

\* getTokenBalances up to its first request
GetTokenBalancesStart ==
  /\ pc = "ready" /\ input.fn = "getTokenBalances"
  /\ IF ~isValidAddress(input.address)
     THEN /\ output' = Throw("Invalid address format")
          /\ pc' = "done"
          /\ UNCHANGED <<requests, locals>>
     ELSE TokenLoop(1, <<>>)
  /\ UNCHANGED input

\* getTokenBalances from the response to balanceOf on
GetTokenBalancesBalance(response) ==
  /\ pc = "awaiting" /\ input.fn = "getTokenBalances" /\ locals.stage = 0
  /\ \E balance \in {IF response.error THEN Throw("NodeApiError")
                                         ELSE decodeUint256(response.result)} :
       IF balance.threw
       THEN TokenLoop(locals.idx + 1, Append(locals.balances, FailedEntry(CurrentToken)))
       ELSE /\ requests' = Send("eth_call", [to |-> CurrentToken, data |-> DecimalsSelector])
            /\ locals' = [locals EXCEPT !.stage = 1, !.got = <<balance.value>>]
            /\ UNCHANGED <<pc, output>>
  /\ UNCHANGED input

\* parseInt(hexToDecimal(result), 10) || 18
ParseDecimals(decimalString) ==
  IF SmallNat(ParseRadix(decimalString, 10)) = 0 THEN DefaultTokenDecimals
  ELSE SmallNat(ParseRadix(decimalString, 10))

\* getTokenBalances from the response to decimals() on
GetTokenBalancesDecimals(response) ==
  /\ pc = "awaiting" /\ input.fn = "getTokenBalances" /\ locals.stage = 1
  /\ \E decimal \in {IF response.error THEN Throw("NodeApiError")
                                         ELSE hexToDecimal(response.result)} :
       IF decimal.threw
       THEN TokenDone(locals.got[1], DefaultTokenDecimals, Unknown, UnknownToken)
       ELSE /\ requests' = Send("eth_call", [to |-> CurrentToken, data |-> SymbolSelector])
            /\ locals' = [locals EXCEPT !.stage = 2,
                                        !.got = Append(locals.got, ParseDecimals(decimal.value))]
            /\ UNCHANGED <<pc, output>>
  /\ UNCHANGED input

\* getTokenBalances from the response to symbol() on
GetTokenBalancesSymbol(response) ==
  /\ pc = "awaiting" /\ input.fn = "getTokenBalances" /\ locals.stage = 2
  /\ IF response.error
     THEN TokenDone(locals.got[1], locals.got[2], Unknown, UnknownToken)
     ELSE /\ requests' = Send("eth_call", [to |-> CurrentToken, data |-> NameSelector])
          /\ locals' = [locals EXCEPT !.stage = 3,
                          !.got = Append(locals.got, decodeNameResult(response.result, Unknown))]
          /\ UNCHANGED <<pc, output>>
  /\ UNCHANGED input

\* getTokenBalances from the response to name() on
GetTokenBalancesName(response) ==
  /\ pc = "awaiting" /\ input.fn = "getTokenBalances" /\ locals.stage = 3
  /\ \E name \in {IF response.error THEN UnknownToken
                                      ELSE decodeNameResult(response.result, UnknownToken)} :
       TokenDone(locals.got[1], locals.got[2], locals.got[3], name)
  /\ UNCHANGED input

(***************************************************************************)
(* Calls of the operation handlers.                                        *)
(***************************************************************************)
OtherAddress == <<"0", "x">> \o Repeat("c", 39) \o <<"D">>

\* an address parameter: valid, malformed, or left empty
AddressParams == {SomeAddress, ShortAddress, <<>>}

\* results the node gives for a quantity: 6 and 23
NumberResults == {<<"0", "x", "6">>, <<"0", "x">> \o Repeat("0", 62) \o <<"1", "7">>}

\* the ABI encoding of the string "CRO": offset 32, length 3, payload
CroResult ==
  <<"0", "x">> \o Repeat("0", 62) \o <<"2", "0">>
              \o Repeat("0", 63) \o <<"3">>
              \o <<"4", "3", "5", "2", "4", "f">> \o Repeat("0", 58)

StringResults == {CroResult, <<"0", "x">>}

NumberResponses == {RpcError} \cup {RpcResult(r) : r \in NumberResults}
StringResponses == {RpcError} \cup {RpcResult(r) : r \in StringResults}
LogsResponses == {RpcError, RpcResult(<<>>)}

TokenLists ==
  {<<>>, SomeAddress, ShortAddress,
   SomeAddress \o <<",", " ">> \o ShortAddress,
   ShortAddress \o <<",">> \o OtherAddress,
   SomeAddress \o <<",">> \o OtherAddress}

HandlerInputs ==
  {[fn |-> "getBalance", address |-> a, blockParameter |-> Latest] : a \in AddressParams}
    \cup {[fn |-> "getLogs", address |-> a, fromBlock |-> f, toBlock |-> JsString(Latest)] :
            a \in AddressParams,
            f \in {JsString(Latest), JsNumber(MaxNat), JsString(<<"n", "o">>)}}
    \cup {[fn |-> "estimateGas", from |-> f, to |-> t, value |-> v, data |-> d] :
            f \in AddressParams, t \in {SomeAddress, ShortAddress},
            v \in {<<"0">>, <<"1">>, <<>>}, d \in {<<"0", "x">>, <<>>}}
    \cup {[fn |-> "getTokenBalances", address |-> a, tokenAddresses |-> ts] :
            a \in {SomeAddress, ShortAddress}, ts \in TokenLists}

InitHandlers ==
  /\ pc = "ready"
  /\ input \in HandlerInputs
  /\ locals = HandlerLocals
  /\ output = Return(<<>>)
  /\ requests = <<>>

NextHandlers ==
  \/ GetBalanceStart
  \/ \E response \in NumberResponses : GetBalanceRespond(response)
  \/ GetLogsStart
  \/ \E response \in LogsResponses : GetLogsRespond(response)
  \/ EstimateGasStart
  \/ \E response \in NumberResponses : EstimateGasRespond(response)
  \/ \E response \in NumberResponses : EstimateGasPrice(response)
  \/ GetTokenBalancesStart
  \/ \E response \in NumberResponses : GetTokenBalancesBalance(response)
  \/ \E response \in NumberResponses : GetTokenBalancesDecimals(response)
  \/ \E response \in StringResponses : GetTokenBalancesSymbol(response)
  \/ \E response \in StringResponses : GetTokenBalancesName(response)

SpecHandlers == InitHandlers /\ [][NextHandlers]_vars

(***************************************************************************)
(* Properties of the operation handlers.                                   *)
(***************************************************************************)
Malformed(address) == address # <<>> /\ ~IsPrefixedHex(address, 40)

\* the required address parameter of the running handler
RequiredAddress ==
  IF input.fn = "estimateGas" THEN input.to ELSE
  IF input.fn \in {"getBalance", "getTokenBalances"} THEN input.address ELSE SomeAddress

\* the optional address parameters of the running handler
OptionalAddresses ==
  IF input.fn = "getLogs" THEN {input.address}
  ELSE IF input.fn = "estimateGas" THEN {input.from}
  ELSE IF input.fn = "getTokenBalances"
  THEN {TokensOf(input.tokenAddresses)[i] : i \in 1..Len(TokensOf(input.tokenAddresses))}
  ELSE {}

InHandler == input.fn \in {"getBalance", "getLogs", "estimateGas", "getTokenBalances"}

\* C16 (as claimed): a handler given a malformed address, required or
\* optional, issues no request and ends in an error.
C16_InvalidAddressSurfaced ==
  (InHandler /\ (Malformed(RequiredAddress) \/ \E a \in OptionalAddresses : Malformed(a))) =>
    /\ requests = <<>>
    /\ pc = "done" => output.threw

\* C16, for the required address parameters: a malformed or missing one ends
\* the handler in an error before any request.
C16_RequiredAddressValidated ==
  (InHandler /\ ~IsPrefixedHex(RequiredAddress, 40)) =>
    /\ requests = <<>>
    /\ pc # "awaiting"
    /\ pc = "done" => output.threw

(***************************************************************************)
(* Properties of the treatment of unsupported ABI types.                   *)
(***************************************************************************)
\* the positions, among the words walked, whose declared type is one no
\* decoder knows
UnsupportedPositions ==
  {i \in 1..Len(input.types) : i <= WordCount(Walked) /\ input.types[i] = TypeString}

\* C19 (as claimed): a word whose declared type is unsupported is dropped by
\* the decoders: no error, and no value emitted for it, so that fewer values
\* come out than words went in.
C19_UnsupportedTypeDropped ==
  (Decoded /\ UnsupportedPositions # {}) =>
    /\ ~output.threw
    /\ Len(ValuesOut) <= WordCount(Walked) - Cardinality(UnsupportedPositions)

\* C19, as the decoders have it: a word whose declared type is unsupported
\* raises no error and is emitted all the same, as an unsigned integer by
\* decodeData and as the raw word by parseLogData.
C19_UnsupportedTypeDecodedAnyway ==
  (Decoded /\ UnsupportedPositions # {}) =>
    /\ ~output.threw
    /\ \A i \in UnsupportedPositions :
         /\ i <= Len(ValuesOut)
         /\ Len(Walked) >= 64 * i =>
              ValuesOut[i] = IF input.fn = "decodeData" THEN AsUnsigned(WordOf(Walked, i))
                             ELSE <<"0", "x">> \o WordOf(Walked, i)

\* C19, for encodeFunctionCall: parameters of type string raise no error and
\* leave the call data what it is without them.
C19_EncodeFunctionCallDropsString ==
  (pc = "done" /\ input.fn = "encodeFunctionCall") =>
    output = encodeFunctionCall(input.functionSignature,
                                SelectSeq(input.params, LAMBDA p : p.type # TypeString))

(***************************************************************************)
(* Decoding of the strings contracts return.  An eth_call result holding   *)
(* one ABI string is a word with the offset of the string, at that offset  *)
(* a word with its length in bytes, and then its bytes, padded to a word.  *)
(***************************************************************************)
\* the two hex digits of a byte
ByteHex(b) == <<HexChars[(b \div 16) + 1], HexChars[(b % 16) + 1]>>

\* the word holding a number below 256
WordOfByte(n) == Repeat("0", 62) \o ByteHex(n)

RECURSIVE BytesHex(_)
BytesHex(bytes) == IF bytes = <<>> THEN <<>> ELSE ByteHex(Head(bytes)) \o BytesHex(Tail(bytes))

\* the result of an eth_call returning the string of these bytes, the string
\* placed at the given offset
AbiString(offset, bytes) ==
  <<"0", "x">> \o WordOfByte(offset) \o Repeat("0", (offset - 32) * 2)
              \o WordOfByte(Len(bytes))
              \o (IF bytes = <<>> THEN <<>> ELSE padEnd(BytesHex(bytes), 64, "0"))

\* NUL, the blank, "C" and "O"
StringBytes == {0, 32, 67, 79}

StringInputs ==
  {[fn |-> f, offset |-> o, bytes |-> bs, result |-> AbiString(o, bs)] :
     f \in {"decodeNameResult", "decodeTokenURIResult"},
     o \in {32, 64},
     bs \in UNION {[1..n -> StringBytes] : n \in 0..MaxStringLen}}

InitStrings ==
  /\ pc = "ready"
  /\ input \in StringInputs
  /\ locals = NoLocals
  /\ output = Return(<<>>)
  /\ requests = <<>>

\* the decoding of a name or symbol, from the default ''
CallDecodeNameResult ==
  /\ pc = "ready" /\ input.fn = "decodeNameResult"
  /\ output' = Return(decodeNameResult(input.result, <<>>))
  /\ pc' = "done"
  /\ UNCHANGED <<input, locals, requests>>

\* the decoding of a token URI
CallDecodeTokenURIResult ==
  /\ pc = "ready" /\ input.fn = "decodeTokenURIResult"
  /\ output' = Return(decodeTokenURIResult(input.result))
  /\ pc' = "done"
  /\ UNCHANGED <<input, locals, requests>>

NextStrings ==
  \/ CallDecodeNameResult
  \/ CallDecodeTokenURIResult

SpecStrings == InitStrings /\ [][NextStrings]_vars

(***************************************************************************)
(* Properties of the decoding of strings.                                  *)
(***************************************************************************)
StringDecoded == pc = "done" /\ input.fn \in {"decodeNameResult", "decodeTokenURIResult"}

\* the characters of the string the contract returned
ReturnedString == [i \in 1..Len(input.bytes) |-> Ascii[input.bytes[i] + 1]]

\* C20 (as claimed): both call sites find the string through the offset
\* word and the length word at that offset, and give its characters without
\* the null bytes and without the white space around them.
C20_StringLocatedByOffset ==
  StringDecoded => output.value = trim(dropNulls(ReturnedString))

\* C20, as the call sites have it: the name and symbol site reads the length
\* from the second word and the bytes from the third, whatever the offset
\* word says, and drops the null bytes; the token URI site follows the
\* offset word and keeps the null bytes; neither trims.
C20_StringAsDecoded ==
  StringDecoded =>
    IF input.fn = "decodeTokenURIResult" THEN output.value = ReturnedString
    ELSE IF input.offset = 32 THEN output.value = dropNulls(ReturnedString)
    ELSE output.value = <<>>

(***************************************************************************)
(* Cronos.execute.  The operation run for input item i either returns a    *)
(* list of results or throws; input.items[i + 1] says which: a number of   *)
(* results, or the message of the error.                                   *)
(***************************************************************************)
\* what execute<Resource>Operation.call(this, operation, i) comes to
OperationResult(outcome, i) ==
  IF outcome.threw THEN Throw(outcome.error)
  ELSE Return([j \in 1..outcome.count |-> [json |-> [item |-> i, result |-> j]]])

\* the switch on resource for item i
executeResource(resource, outcome, i) ==
  IF resource = "unknown" THEN Throw("Unknown resource") ELSE OperationResult(outcome, i)

\* the catch block with the error record paired with the first item
pushErrorFirstItem(returnData, error, i) ==
  Append(returnData, [json |-> [error |-> error], pairedItem |-> [item |-> 0]])

\* returnData.push({ json: { error }, pairedItem: { item: i } })
pushError(returnData, error, i) ==
  Append(returnData, [json |-> [error |-> error], pairedItem |-> [item |-> i]])

\* one turn of the loop over the items: the try block and its catch
ExecuteItem ==
  /\ pc = "ready" /\ input.fn = "execute"
  /\ locals.i < Len(input.items)
  /\ \E result \in {executeResource(input.resource, input.items[locals.i + 1], locals.i)} :
       IF ~result.threw
       THEN /\ locals' = [i |-> locals.i + 1, returnData |-> locals.returnData \o result.value]
            /\ UNCHANGED <<pc, output>>
       ELSE IF input.continueOnFail
       THEN /\ locals' = [i |-> locals.i + 1,
                          returnData |-> pushError(locals.returnData, result.error, locals.i)]
            /\ UNCHANGED <<pc, output>>
       ELSE /\ output' = Throw(result.error)
            /\ pc' = "done"
            /\ UNCHANGED locals
  /\ UNCHANGED <<input, requests>>

\* return [returnData]
ExecuteReturn ==
  /\ pc = "ready" /\ input.fn = "execute"
  /\ locals.i >= Len(input.items)
  /\ output' = Return(<<locals.returnData>>)
  /\ pc' = "done"
  /\ UNCHANGED <<input, locals, requests>>

(***************************************************************************)
(* Executions of the node.                                                 *)
(***************************************************************************)
ItemOutcomes ==
  {[threw |-> FALSE, error |-> "", count |-> n] : n \in 0..2}
    \cup {[threw |-> TRUE, error |-> e, count |-> 0] :
            e \in {"Invalid address format", "NodeApiError"}}

ExecuteInputs ==
  {[fn |-> "execute", resource |-> r, items |-> items, continueOnFail |-> c] :
     r \in {"accounts", "unknown"},
     items \in UNION {[1..n -> ItemOutcomes] : n \in 0..MaxItems},
     c \in BOOLEAN}

InitExecute ==
  /\ pc = "ready"
  /\ input \in ExecuteInputs
  /\ locals = [i |-> 0, returnData |-> <<>>]
  /\ output = Return(<<>>)
  /\ requests = <<>>

NextExecute ==
  \/ ExecuteItem
  \/ ExecuteReturn

SpecExecute == InitExecute /\ [][NextExecute]_vars

(***************************************************************************)
(* Properties of Cronos.execute.                                           *)
(***************************************************************************)
\* whether processing item i (counted from 0) fails
ItemFails(i) == input.resource = "unknown" \/ input.items[i + 1].threw

\* the message of the failure of item i
ItemError(i) ==
  IF input.resource = "unknown" THEN "Unknown resource" ELSE input.items[i + 1].error

\* what item i contributes to the output under continue-on-fail
ItemOutput(i) ==
  IF ItemFails(i)
  THEN << [json |-> [error |-> ItemError(i)], pairedItem |-> [item |-> i]] >>
  ELSE [j \in 1..input.items[i + 1].count |-> [json |-> [item |-> i, result |-> j]]]

\* the contributions of items 0 .. n - 1, in that order
RECURSIVE OutputUpTo(_)
OutputUpTo(n) == IF n = 0 THEN <<>> ELSE OutputUpTo(n - 1) \o ItemOutput(n - 1)

FailingItems == {i \in 0..(Len(input.items) - 1) : ItemFails(i)}

\* C17: with continue-on-fail the execution returns, item by item in input
\* order, the item's results or one error record paired with it, whatever
\* failed before; without it the first failing item aborts the execution
\* with its error and nothing is returned.
C17_PerItemErrorHandling ==
  (input.fn = "execute" /\ pc = "done") =>
    IF input.continueOnFail \/ FailingItems = {}
    THEN output = Return(<<OutputUpTo(Len(input.items))>>)
    ELSE /\ output.threw
         /\ output.value = <<>>
         /\ output.error = ItemError(Min(FailingItems))
         /\ locals.i = Min(FailingItems)

\* an execution that went on after a failing item and returned
C17_Witness ==
  /\ input.fn = "execute" /\ pc = "done"
  /\ input.continueOnFail
  /\ Len(input.items) = 3
  /\ FailingItems = {1}
  /\ ~output.threw
  /\ Len(output.value[1]) = 4

(***************************************************************************)
(* cronosScanRequest: one GET to the block explorer and the test of its    *)
(* response.  A response is a record [status, message, result].            *)
(***************************************************************************)
NoTransactionsFound == <<"N","o"," ","t","r","a","n","s","a","c","t","i","o","n","s"," ","f","o","u","n","d">>

\* NETWORK_CONFIG[credentials.network].scanApiUrl
getScanApiUrl(credentials) ==
  IF credentials.network = "mainnet" THEN "https://api.cronoscan.com/api"
  ELSE "https://api-testnet.cronoscan.com/api"

\* { module, action, ...params }, and apikey when the credentials hold one
QueryParams(credentials, module, action, params) ==
  IF credentials.cronosScanApiKey # <<>>
  THEN [apikey |-> credentials.cronosScanApiKey] @@ params @@ [module |-> module, action |-> action]
  ELSE params @@ [module |-> module, action |-> action]

\* the test of the response that raises on status '0' alone
scanResponseFailsOnStatus(scanResponse) ==
  scanResponse.status = JsString(<<"0">>)

\* scanResponse.status === '0' && scanResponse.message !== 'No transactions found'
scanResponseFails(scanResponse) ==
  /\ scanResponse.status = JsString(<<"0">>)
  /\ scanResponse.message # NoTransactionsFound

\* cronosScanRequest up to its await
CronosScanRequestStart ==
  /\ pc = "ready" /\ input.fn = "cronosScanRequest"
  /\ requests' = Send("GET", [url |-> getScanApiUrl(input.credentials),
                              qs |-> QueryParams(input.credentials, input.module,
                                                 input.action, input.params)])
  /\ pc' = "awaiting"
  /\ UNCHANGED <<input, locals, output>>

\* cronosScanRequest from the response on
CronosScanRequestRespond(scanResponse) ==
  /\ pc = "awaiting" /\ input.fn = "cronosScanRequest"
  /\ output' = IF scanResponseFails(scanResponse)
               THEN Throw(scanResponse.message)
               ELSE Return(scanResponse.result)
  /\ pc' = "done"
  /\ locals' = [scanResponse |-> scanResponse]
  /\ UNCHANGED <<input, requests>>

(***************************************************************************)
(* Calls of cronosScanRequest.                                             *)
(***************************************************************************)
ScanStatuses == {JsString(<<"0">>), JsString(<<"1">>), JsNumber(0), JsNumber(1)}

ScanMessages ==
  {NoTransactionsFound, <<"O","K">>, <<"N","O","T","O","K">>, <<>>,
   <<"n","o"," ","t","r","a","n","s","a","c","t","i","o","n","s"," ","f","o","u","n","d">>,
   NoTransactionsFound \o <<".">>}

ScanResults == {<<>>, <<"tx1">>, <<"M","a","x"," ","r","a","t","e"," ","l","i","m","i","t"," ","r","e","a","c","h","e","d">>}

ScanResponses ==
  {[status |-> st, message |-> m, result |-> r] :
     st \in ScanStatuses, m \in ScanMessages, r \in ScanResults}

ScanInputs ==
  {[fn |-> "cronosScanRequest", credentials |-> [network |-> n, cronosScanApiKey |-> k],
    module |-> "account", action |-> a, params |-> p] :
     n \in {"mainnet", "testnet"},
     k \in {<<>>, <<"K","E","Y">>},
     a \in {"txlist", "tokentx"},
     p \in {[address |-> SomeAddress], [address |-> SomeAddress, sort |-> "desc"]}}

InitScan ==
  /\ pc = "ready"
  /\ input \in ScanInputs
  /\ locals = [scanResponse |-> [status |-> JsString(<<>>), message |-> <<>>, result |-> <<>>]]
  /\ output = Return(<<>>)
  /\ requests = <<>>

NextScan ==
  \/ CronosScanRequestStart
  \/ \E scanResponse \in ScanResponses : CronosScanRequestRespond(scanResponse)

SpecScan == InitScan /\ [][NextScan]_vars

(***************************************************************************)
(* Properties of cronosScanRequest.                                        *)
(***************************************************************************)
ScanDone == input.fn = "cronosScanRequest" /\ pc = "done"

\* C18: cronosScanRequest raises exactly when the response has status "0"
\* and a message other than "No transactions found"; otherwise it returns
\* the result field of the response.
C18_ScanErrorExactly ==
  ScanDone =>
    /\ output.threw <=> /\ locals.scanResponse.status = JsString(<<"0">>)
                        /\ locals.scanResponse.message # NoTransactionsFound
    /\ ~output.threw => output.value = locals.scanResponse.result

\* a response of status "0" saying "No transactions found" was returned
C18_Witness ==
  /\ ScanDone
  /\ locals.scanResponse.status = JsString(<<"0">>)
  /\ locals.scanResponse.message = NoTransactionsFound
  /\ output = Return(<<>>)
  /\ Len(requests) = 1

(***************************************************************************)
(* calculateTxFee.                                                         *)
(***************************************************************************)
\* weiToCro(feeWei.toString()), feeWei being the product of two BigInts
feeOfProduct(gasUsedBigInt, gasPriceBigInt, divisor) ==
  IF ~gasUsedBigInt.ok \/ ~gasPriceBigInt.ok THEN Throw("SyntaxError")
  ELSE weiToCro(BigIntToString(BigIntMul(gasUsedBigInt, gasPriceBigInt), 10),
                CRO_DECIMALS, divisor)

\* BigInt(gasUsedDecimal) * BigInt(gasPriceDecimal), then weiToCro
feeOfDecimals(gasUsedDecimal, gasPriceDecimal, divisor) ==
  IF gasUsedDecimal.threw THEN gasUsedDecimal
  ELSE IF gasPriceDecimal.threw THEN gasPriceDecimal
  ELSE feeOfProduct(StringToBigInt(gasUsedDecimal.value),
                    StringToBigInt(gasPriceDecimal.value), divisor)

\* calculateTxFee(gasUsed, gasPrice), divisor being the double 10 ** 18
calculateTxFee(gasUsed, gasPrice, divisor) ==
  feeOfDecimals(hexToDecimal(gasUsed), hexToDecimal(gasPrice), divisor)

(***************************************************************************)
(* Calls of calculateTxFee.  An operand is a run of hex digits together    *)
(* with the decimal digits of its value.                                   *)
(***************************************************************************)
FeeOperands ==
  {[hex |-> <<"5","2","0","8">>, digits |-> <<2,1,0,0,0>>],
   [hex |-> <<"3","b","9","a","c","a","0","0">>, digits |-> <<1,0,0,0,0,0,0,0,0,0>>],
   [hex |-> <<"f","f","f","f","f","f","f","f","f","f","f","f","f","f">>, digits |-> <<7,2,0,5,7,5,9,4,0,3,7,9,2,7,9,3,5>>],
   [hex |-> <<"0">>, digits |-> <<0>>],
   [hex |-> <<"1">>, digits |-> <<1>>],
   [hex |-> <<"d","e","0","b","6","b","3","a","7","6","4","0","0","0","0">>, digits |-> <<1,0,0,0,0,0,0,0,0,0,0,0,0,0,0,0,0,0,0>>]}

FeeInputs ==
  {[fn |-> "calculateTxFee",
    gasUsed |-> gp \o g.hex, gasUsedDigits |-> g.digits,
    gasPrice |-> pp \o p.hex, gasPriceDigits |-> p.digits] :
     g \in FeeOperands, p \in FeeOperands,
     gp \in {<<>>, <<"0", "x">>}, pp \in {<<>>, <<"0", "x">>}}

InitFee ==
  /\ pc = "ready"
  /\ input \in FeeInputs
  /\ locals = NoLocals
  /\ output = Return(<<>>)
  /\ requests = <<>>

CallCalculateTxFee ==
  /\ pc = "ready" /\ input.fn = "calculateTxFee"
  /\ \E divisor \in Pow10Doubles(CRO_DECIMALS) :
       output' = calculateTxFee(input.gasUsed, input.gasPrice, divisor)
  /\ pc' = "done"
  /\ UNCHANGED <<input, locals, requests>>

NextFee ==
  \/ CallCalculateTxFee

SpecFee == InitFee /\ [][NextFee]_vars

(***************************************************************************)
(* Properties of calculateTxFee.                                           *)
(***************************************************************************)
\* the decimal string of a magnitude
DecimalOf(mag) == [i \in 1..Len(mag) |-> HexChars[mag[i] + 1]]

\* the fee of the operands' values: their exact product at 18 decimals
ExactFee ==
  ExactRendering(DecimalOf(Mul(input.gasUsedDigits, input.gasPriceDigits)), CRO_DECIMALS)

\* C21 (as claimed): for hex operands, with or without the 0x prefix,
\* calculateTxFee is the exact product of their values rendered at 18
\* decimals.
C21_FeeIsExactProduct ==
  Done("calculateTxFee") =>
    /\ ~output.threw
    /\ output.value = ExactFee

\* C21, for operands that carry the 0x prefix: the exact product at 18
\* decimals, also above 2^53; 0x5208 and 0x3b9aca00 give "0.000021".
C21_FeeOfPrefixedHex ==
  (Done("calculateTxFee") /\ startsWith(input.gasUsed, <<"0", "x">>)
                          /\ startsWith(input.gasPrice, <<"0", "x">>)) =>
    /\ ~output.threw
    /\ output.value = ExactFee
    /\ (input.gasUsedDigits = <<2,1,0,0,0>> /\ input.gasPriceDigits = <<1,0,0,0,0,0,0,0,0,0>>)
         => output.value = <<"0", ".", "0", "0", "0", "0", "2", "1">>

(***************************************************************************)
(* jsonRpcRequest, called several times over.  Call c is "idle" until it   *)
(* is made, "credentials" while it awaits getCredentials, "sent" while it  *)
(* awaits the HTTP response and "done" after it.  locals.requestId is the  *)
(* module's counter; a request is [url, method, params, id].               *)
(***************************************************************************)
MainnetRpcUrl == "https://evm.cronos.org"
TestnetRpcUrl == "https://evm-t3.cronos.org"

\* NETWORK_CONFIG[network].rpcUrl
NetworkRpcUrl(network) == IF network = "mainnet" THEN MainnetRpcUrl ELSE TestnetRpcUrl

\* getRpcUrl(credentials)
getRpcUrl(credentials) ==
  IF credentials.rpcEndpoint # "" THEN credentials.rpcEndpoint
  ELSE NetworkRpcUrl(credentials.network)

\* the counter left as it is
requestIdKept(requestId) == requestId

\* requestId++ : the counter after the id was taken
requestIdAfter(requestId) == requestId + 1

\* call c is made and suspends on getCredentials
JsonRpcRequestCall(c) ==
  /\ input.fn = "jsonRpcRequest"
  /\ pc[c] = "idle"
  /\ pc' = [pc EXCEPT ![c] = "credentials"]
  /\ UNCHANGED <<input, locals, output, requests>>

\* call c resumes with the credentials: it takes its id and posts the body
JsonRpcRequestSend(c) ==
  /\ input.fn = "jsonRpcRequest"
  /\ pc[c] = "credentials"
  /\ requests' = Append(requests, [url |-> getRpcUrl(input.credentials),
                                   method |-> input.calls[c],
                                   id |-> locals.requestId,
                                   call |-> c])
  /\ locals' = [locals EXCEPT !.requestId = requestIdAfter(locals.requestId)]
  /\ pc' = [pc EXCEPT ![c] = "sent"]
  /\ UNCHANGED <<input, output>>

\* call c resumes with the response: it throws on an error object and
\* returns the result otherwise
JsonRpcRequestRespond(c, response) ==
  /\ input.fn = "jsonRpcRequest"
  /\ pc[c] = "sent"
  /\ output' = [output EXCEPT ![c] = IF response.error THEN Throw("NodeApiError")
                                     ELSE Return(response.result)]
  /\ pc' = [pc EXCEPT ![c] = "done"]
  /\ UNCHANGED <<input, locals, requests>>

(***************************************************************************)
(* Calls of jsonRpcRequest.                                                *)
(***************************************************************************)
CustomRpcUrl == "https://rpc.example"

CredentialSets ==
  {[network |-> n, rpcEndpoint |-> e] :
     n \in {"mainnet", "testnet"}, e \in {"", CustomRpcUrl}}

TransportInputs ==
  {[fn |-> "jsonRpcRequest", credentials |-> cr, calls |-> calls] :
     cr \in CredentialSets,
     calls \in UNION {[1..n -> {"eth_blockNumber", "eth_gasPrice"}] : n \in 1..MaxCalls}}

InitTransport ==
  /\ input \in TransportInputs
  /\ pc = [c \in 1..Len(input.calls) |-> "idle"]
  /\ locals = [requestId |-> 1]
  /\ output = [c \in 1..Len(input.calls) |-> Return(<<>>)]
  /\ requests = <<>>

NextTransport ==
  \/ \E c \in 1..Len(input.calls) : JsonRpcRequestCall(c)
  \/ \E c \in 1..Len(input.calls) : JsonRpcRequestSend(c)
  \/ \E c \in 1..Len(input.calls), response \in {RpcError, RpcResult(<<"0", "x", "1">>)} :
       JsonRpcRequestRespond(c, response)

SpecTransport == InitTransport /\ [][NextTransport]_vars

(***************************************************************************)
(* Properties of the request identifier.                                   *)
(***************************************************************************)
InTransport == input.fn = "jsonRpcRequest"

\* C23: whatever the interleaving of the calls, the k-th request to take an
\* id has id k: ids start at 1, increase by one and are never shared, and
\* the counter is one past the number of requests made.
C23_RequestIdsCount ==
  InTransport =>
    /\ \A k \in 1..Len(requests) : requests[k].id = k
    /\ locals.requestId = Len(requests) + 1
    /\ \A j, k \in 1..Len(requests) : requests[j].id = requests[k].id => j = k

\* three calls made together, the last of them the first to take its id
C23_Witness ==
  /\ InTransport
  /\ Len(requests) = 3
  /\ requests[1].call = 3
  /\ requests[3].call = 1
  /\ \A c \in 1..3 : pc[c] = "sent"

(***************************************************************************)
(* The trigger node.  poll runs one of five functions by the event         *)
(* parameter; webhookData is the workflow's static data, kept from one     *)
(* poll to the next.  Between polls pc is "ready"; inside a poll pc names  *)
(* the request whose response is awaited.  locals holds webhookData, the   *)
(* number of polls begun and finished, the head the node reported last,    *)
(* webhookData as the running poll found it, and the poll's own variables. *)
(* output.result is what the last poll returned or threw, output.emitted   *)
(* the item lists of the polls that returned items, in order, and          *)
(* output.failed the number of polls that threw.                           *)
(***************************************************************************)
Undefined == [t |-> "undefined"]
Null == [t |-> "null"]

\* value || other, for a value that is undefined or a number
orNumber(value, other) == IF value.t = "number" /\ value.n # 0 THEN value.n ELSE other

\* `0x${n.toString(16)}`
HexQuantity(n) == <<"0", "x">> \o BigIntToString(BigIntOf(n < 0, NatDigits(Abs(n))), 16)

\* rpcUrl of poll
pollRpcUrl(credentials) ==
  IF credentials.network = "testnet" THEN "https://evm-t3.cronos.org"
  ELSE IF credentials.rpcEndpoint # "" THEN credentials.rpcEndpoint
  ELSE "https://evm.cronos.org"

\* cronosScanUrl of poll
pollScanUrl(credentials) ==
  IF credentials.network = "testnet" THEN "https://api-testnet.cronoscan.com/api"
  ELSE "https://api.cronoscan.com/api"

\* a JSON-RPC request of the trigger: the id is always 1
RpcPost(method, params) ==
  [url |-> pollRpcUrl(input.credentials), method |-> method, params |-> params, id |-> 1]

\* the variables of a poll between two polls
IdleLocals(webhookData, polls, head) ==
  [webhookData |-> webhookData, polls |-> polls, head |-> head, before |-> webhookData,
   currentBlock |-> 0, lastBlock |-> 0, blocks |-> 0, i |-> 0, items |-> <<>>]

\* the variables of a poll inside its loop, with the cursor already moved
LoopLocalsCursorFirst(webhookData, currentBlock, lastBlock, blocks, i, items) ==
  [locals EXCEPT !.webhookData = [lastBlock |-> JsNumber(lastBlock + blocks)],
                 !.currentBlock = currentBlock, !.lastBlock = lastBlock,
                 !.blocks = blocks, !.i = i, !.items = items]

\* the variables of a poll inside its loop: webhookData is not written
\* before the loop has ended
LoopLocals(webhookData, currentBlock, lastBlock, blocks, i, items) ==
  [locals EXCEPT !.webhookData = webhookData,
                 !.currentBlock = currentBlock, !.lastBlock = lastBlock,
                 !.blocks = blocks, !.i = i, !.items = items]

\* the poll function returns items, having left webhookData as given: poll
\* returns null for no items and the items otherwise
PollReturns(items, webhookData, head) ==
  /\ output' = [result |-> IF items = <<>> THEN Return(Null) ELSE Return(items),
                emitted |-> IF items = <<>> THEN output.emitted
                            ELSE Append(output.emitted, items),
                failed |-> output.failed]
  /\ locals' = IdleLocals(webhookData, locals.polls + 1, head)
  /\ pc' = "ready"
  /\ UNCHANGED <<input, requests>>

\* an HTTP request of the running poll throws: poll throws a NodeApiError
PollHttpThrows ==
  /\ input.fn = "poll" /\ pc # "ready"
  /\ output' = [output EXCEPT !.result = Throw("NodeApiError"),
                               !.failed = output.failed + 1]
  /\ locals' = [IdleLocals(locals.webhookData, locals.polls + 1, locals.head)
                  EXCEPT !.before = locals.before]
  /\ pc' = "ready"
  /\ UNCHANGED <<input, requests>>

\* the request for the head, the first of three of the poll functions
HeadRequested ==
  /\ requests' = Append(requests, RpcPost("eth_blockNumber", <<>>))
  /\ locals' = IdleLocals(locals.webhookData, locals.polls, locals.head)
  /\ pc' = "blockNumber"
  /\ UNCHANGED <<input, output>>

(***************************************************************************)
(* New Block.                                                              *)
(***************************************************************************)
NewBlockLimit == 10

\* what the node answers to eth_getBlockByNumber for block i
BlockData(i) ==
  IF i \in input.nullBlocks THEN Null
  ELSE [t |-> "block", hash |-> HexQuantity(i),
        transactions |-> IF i \in input.txBlocks THEN input.transactions ELSE <<>>]

\* poll and pollNewBlock up to the request for the head
PollNewBlockStart ==
  /\ input.fn = "poll" /\ pc = "ready" /\ input.event = "newBlock"
  /\ locals.polls < MaxPolls
  /\ HeadRequested

\* pollNewBlock from the head to the first block request
PollNewBlockHead(head) ==
  /\ input.fn = "poll" /\ pc = "blockNumber" /\ input.event = "newBlock"
  /\ head >= locals.head
  /\ \E currentBlock \in {parseIntHex(HexQuantity(head)).n} :
     \E lastBlock \in {orNumber(locals.webhookData.lastBlock, currentBlock - 1)} :
       IF currentBlock <= lastBlock
       THEN PollReturns(<<>>, locals.webhookData, head)
       ELSE /\ requests' = Append(requests, RpcPost("eth_getBlockByNumber",
                                                    <<HexQuantity(lastBlock + 1), FALSE>>))
            /\ locals' = [LoopLocals(locals.webhookData, currentBlock, lastBlock,
                                     Min({currentBlock - lastBlock, NewBlockLimit}),
                                     lastBlock + 1, <<>>) EXCEPT !.head = head]
            /\ pc' = "block"
            /\ UNCHANGED <<input, output>>

\* pollNewBlock from the response for block i to the next request, or to
\* the end of the loop, where the cursor is written
PollNewBlockBlock ==
  /\ input.fn = "poll" /\ pc = "block" /\ input.event = "newBlock"
  /\ \E blockData \in {BlockData(locals.i)} :
     \E items \in {IF blockData.t = "null" THEN locals.items
                   ELSE Append(locals.items,
                               [blockNumber |-> locals.i, blockHash |-> blockData.hash,
                                transactionCount |-> Len(blockData.transactions)])} :
       IF locals.i + 1 <= locals.lastBlock + locals.blocks
       THEN /\ requests' = Append(requests, RpcPost("eth_getBlockByNumber",
                                                    <<HexQuantity(locals.i + 1), FALSE>>))
            /\ locals' = LoopLocals(locals.webhookData, locals.currentBlock, locals.lastBlock,
                                    locals.blocks, locals.i + 1, items)
            /\ UNCHANGED <<pc, input, output>>
       ELSE PollReturns(items, [lastBlock |-> JsNumber(locals.lastBlock + locals.blocks)],
                        locals.head)

(***************************************************************************)
(* Transaction To Address and Token Transfer.  The explorer has indexed    *)
(* the blocks up to locals.head of a history that only grows; it answers   *)
(* with status '1' and the matching entries from startblock on, or with    *)
(* status '0' when there are none.  An entry is [hash, from, to,           *)
(* blockNumber, contractAddress], the block number a decimal string.       *)
(***************************************************************************)
\* parseInt(str) of a string of decimal digits
parseIntDecimal(str) == SmallNat(ParseRadix(str, 10))

\* the entries of a history the explorer returns
ExplorerResult(history, head, startblock, address, contractaddress) ==
  LET Matches(tx) ==
        /\ parseIntDecimal(tx.blockNumber) >= startblock
        /\ parseIntDecimal(tx.blockNumber) <= head
        /\ address = <<>> \/ toLowerCase(address) \in {toLowerCase(tx.from), toLowerCase(tx.to)}
        /\ contractaddress = <<>> \/ toLowerCase(contractaddress) = toLowerCase(tx.contractAddress)
  IN  SelectSeq(history, Matches)

ExplorerResponse(result) ==
  IF result = <<>>
  THEN [status |-> JsString(<<"0">>), message |-> NoTransactionsFound, result |-> result]
  ELSE [status |-> JsString(<<"1">>), message |-> <<"O", "K">>, result |-> result]

\* a GET request of the trigger to the explorer
ScanGet(qs) ==
  [url |-> pollScanUrl(input.credentials),
   qs |-> IF input.credentials.cronosScanApiKey # <<>>
          THEN qs @@ [apikey |-> input.credentials.cronosScanApiKey] ELSE qs]

\* the items pushed for the entries of a response that pass the filter on
\* the sender and the one on the recipient (an empty filter passes all)
ScanItems(response, type, fromAddress, toAddress) ==
  LET Passes(tx) ==
        /\ fromAddress = <<>> \/ toLowerCase(tx.from) = toLowerCase(fromAddress)
        /\ toAddress = <<>> \/ toLowerCase(tx.to) = toLowerCase(toAddress)
      passed == SelectSeq(response.result, Passes)
  IN  IF response.status # JsString(<<"1">>) THEN <<>>
      ELSE [k \in 1..Len(passed) |->
              [type |-> type, hash |-> passed[k].hash, from |-> passed[k].from,
               to |-> passed[k].to, blockNumber |-> parseIntDecimal(passed[k].blockNumber)]]

Max(S) == CHOOSE x \in S : \A y \in S : x >= y

\* the end of both explorer polls: the cursor becomes the greatest block
\* number among the items, when there are items
ScanPollReturns(items, head) ==
  PollReturns(items,
              IF items = <<>> THEN locals.webhookData
              ELSE [lastBlock |-> JsNumber(Max({items[k].blockNumber : k \in 1..Len(items)}))],
              head)

\* poll and pollTransactionToAddress up to the txlist request
PollTransactionToAddressStart ==
  /\ input.fn = "poll" /\ pc = "ready" /\ input.event = "newTransactionToAddress"
  /\ locals.polls < MaxPolls
  /\ \E startBlock \in {orNumber(locals.webhookData.lastBlock, 0)} :
       /\ requests' = Append(requests, ScanGet([module |-> "account", action |-> "txlist",
                                                address |-> input.address,
                                                startblock |-> startBlock, sort |-> "asc"]))
       /\ locals' = [IdleLocals(locals.webhookData, locals.polls, locals.head)
                       EXCEPT !.lastBlock = startBlock]
  /\ pc' = "txlist"
  /\ UNCHANGED <<input, output>>

\* pollTransactionToAddress from the txlist response on
PollTransactionToAddressTxList(head) ==
  /\ input.fn = "poll" /\ pc = "txlist"
  /\ head >= locals.head
  /\ \E result \in {ExplorerResult(input.history, head, locals.lastBlock, input.address, <<>>)} :
     \E items \in {ScanItems(ExplorerResponse(result), "transaction", <<>>, input.address)} :
       IF input.includeTokenTransfers
       THEN /\ requests' = Append(requests, ScanGet([module |-> "account", action |-> "tokentx",
                                                     address |-> input.address,
                                                     startblock |-> locals.lastBlock,
                                                     sort |-> "asc"]))
            /\ locals' = [locals EXCEPT !.items = items, !.head = head]
            /\ pc' = "tokentx"
            /\ UNCHANGED <<input, output>>
       ELSE ScanPollReturns(items, head)

\* pollTransactionToAddress from the tokentx response on
PollTransactionToAddressTokenTx(head) ==
  /\ input.fn = "poll" /\ pc = "tokentx" /\ input.event = "newTransactionToAddress"
  /\ head >= locals.head
  /\ \E result \in {ExplorerResult(input.tokenHistory, head, locals.lastBlock, input.address, <<>>)} :
     \E items \in {ScanItems(ExplorerResponse(result), "tokenTransfer", <<>>, input.address)} :
       ScanPollReturns(locals.items \o items, head)

\* poll and pollTokenTransfer up to the tokentx request
PollTokenTransferStart ==
  /\ input.fn = "poll" /\ pc = "ready" /\ input.event = "tokenTransfer"
  /\ locals.polls < MaxPolls
  /\ \E startBlock \in {orNumber(locals.webhookData.lastBlock, 0)} :
     \E address \in {IF input.fromAddress # <<>> THEN input.fromAddress ELSE input.toAddress} :
     \E params \in {[module |-> "account", action |-> "tokentx",
                     startblock |-> startBlock, sort |-> "asc"]} :
     \E withContract \in {IF input.tokenAddress # <<>>
                          THEN params @@ [contractaddress |-> input.tokenAddress]
                          ELSE params} :
       /\ requests' = Append(requests,
                             ScanGet(IF address # <<>>
                                     THEN withContract @@ [address |-> address]
                                     ELSE withContract))
       /\ locals' = [IdleLocals(locals.webhookData, locals.polls, locals.head)
                       EXCEPT !.lastBlock = startBlock]
  /\ pc' = "transfers"
  /\ UNCHANGED <<input, output>>

\* pollTokenTransfer from the response on
PollTokenTransferRespond(head) ==
  /\ input.fn = "poll" /\ pc = "transfers"
  /\ head >= locals.head
  /\ \E address \in {IF input.fromAddress # <<>> THEN input.fromAddress ELSE input.toAddress} :
     \E result \in {ExplorerResult(input.tokenHistory, head, locals.lastBlock,
                                   address, input.tokenAddress)} :
       ScanPollReturns(ScanItems(ExplorerResponse(result), "tokenTransfer",
                                 input.fromAddress, input.toAddress), head)

(***************************************************************************)
(* Contract Event.                                                         *)
(***************************************************************************)
ContractEventLookBack == 100
ContractEventRange == 1000

\* poll and pollContractEvent up to the request for the head
PollContractEventStart ==
  /\ input.fn = "poll" /\ pc = "ready" /\ input.event = "contractEvent"
  /\ locals.polls < MaxPolls
  /\ HeadRequested

\* pollContractEvent from the head to the eth_getLogs request
PollContractEventHead(head) ==
  /\ input.fn = "poll" /\ pc = "blockNumber" /\ input.event = "contractEvent"
  /\ head >= locals.head
  /\ \E currentBlock \in {parseIntHex(HexQuantity(head)).n} :
     \E lastBlock \in {orNumber(locals.webhookData.lastBlock,
                                currentBlock - ContractEventLookBack)} :
     \E fromBlock \in {Max({lastBlock + 1, currentBlock - ContractEventRange})} :
     \E filter \in {[address |-> input.contractAddress,
                     fromBlock |-> HexQuantity(fromBlock),
                     toBlock |-> HexQuantity(currentBlock)]} :
       /\ requests' = Append(requests,
                             RpcPost("eth_getLogs",
                                     <<IF input.eventSignature # <<>>
                                       THEN filter @@ [topics |-> <<input.eventSignature>>]
                                       ELSE filter>>))
       /\ locals' = [locals EXCEPT !.head = head, !.currentBlock = currentBlock,
                                   !.lastBlock = lastBlock]
  /\ pc' = "logs"
  /\ UNCHANGED <<input, output>>

\* pollContractEvent from the eth_getLogs response on: result is an array
\* of logs, or something else
PollContractEventLogs(result) ==
  /\ input.fn = "poll" /\ pc = "logs"
  /\ \E items \in {IF result.t = "null" THEN <<>>
                   ELSE [k \in 1..Len(result.logs) |->
                           [address |-> result.logs[k].address,
                            transactionHash |-> result.logs[k].transactionHash,
                            blockNumber |-> parseIntHex(result.logs[k].blockNumber).n]]} :
       PollReturns(items, [lastBlock |-> JsNumber(locals.currentBlock)], locals.head)

(***************************************************************************)
(* Large Transaction.  A transaction is [hash, from, to, value]; to is     *)
(* Null for a contract creation and value a hex quantity.                  *)
(***************************************************************************)
LargeTransactionLimit == 5

\* BigInt(minAmountCRO) * BigInt(1e18): BigInt() of a number with a
\* fraction is a RangeError
minAmountWeiOf(minAmountCRO) ==
  IF ~minAmountCRO.integer THEN BigIntError
  ELSE BigIntMul(ToBigInt(JsNumber(minAmountCRO.n)), BigIntOf(FALSE, Pow10(CRO_DECIMALS)))

\* a >= b on BigInts that are not negative
BigIntAtLeast(a, b) == ~Less(a.mag, b.mag)

\* value?.toLowerCase() !== watch
differsFrom(value, watch) == value.t = "null" \/ toLowerCase(value.s) # watch

\* the items pollLargeTransaction pushes for block i
LargeItems(blockData, i, minAmountWei, watchAddress) ==
  LET Large(tx) ==
        /\ BigIntAtLeast(StringToBigInt(tx.value), minAmountWei)
        /\ \/ watchAddress = <<>>
           \/ ~(/\ differsFrom(tx.from, toLowerCase(watchAddress))
                /\ differsFrom(tx.to, toLowerCase(watchAddress)))
      large == IF blockData.t = "null" THEN <<>> ELSE SelectSeq(blockData.transactions, Large)
  IN  [k \in 1..Len(large) |->
         [hash |-> large[k].hash, from |-> large[k].from, to |-> large[k].to,
          valueWei |-> large[k].value, blockNumber |-> i]]

\* poll and pollLargeTransaction up to the request for the head, or to the
\* RangeError
PollLargeTransactionStart ==
  /\ input.fn = "poll" /\ pc = "ready" /\ input.event = "largeTransaction"
  /\ locals.polls < MaxPolls
  /\ IF minAmountWeiOf(input.minAmount).ok
     THEN HeadRequested
     ELSE /\ output' = [output EXCEPT !.result = Throw("NodeApiError"),
                                      !.failed = output.failed + 1]
          /\ locals' = IdleLocals(locals.webhookData, locals.polls + 1, locals.head)
          /\ UNCHANGED <<pc, input, requests>>

\* pollLargeTransaction from the head to the first block request
PollLargeTransactionHead(head) ==
  /\ input.fn = "poll" /\ pc = "blockNumber" /\ input.event = "largeTransaction"
  /\ head >= locals.head
  /\ \E currentBlock \in {parseIntHex(HexQuantity(head)).n} :
     \E lastBlock \in {orNumber(locals.webhookData.lastBlock, currentBlock - 1)} :
       IF currentBlock <= lastBlock
       THEN PollReturns(<<>>, locals.webhookData, head)
       ELSE /\ requests' = Append(requests, RpcPost("eth_getBlockByNumber",
                                                    <<HexQuantity(lastBlock + 1), TRUE>>))
            /\ locals' = [LoopLocals(locals.webhookData, currentBlock, lastBlock,
                                     Min({currentBlock - lastBlock, LargeTransactionLimit}),
                                     lastBlock + 1, <<>>) EXCEPT !.head = head]
            /\ pc' = "transactions"
            /\ UNCHANGED <<input, output>>

\* pollLargeTransaction from the response for block i to the next request,
\* or to the end of the loop, where the cursor is written
PollLargeTransactionBlock ==
  /\ input.fn = "poll" /\ pc = "transactions"
  /\ \E items \in {locals.items \o LargeItems(BlockData(locals.i), locals.i,
                                              minAmountWeiOf(input.minAmount),
                                              input.watchAddress)} :
       IF locals.i + 1 <= locals.lastBlock + locals.blocks
       THEN /\ requests' = Append(requests, RpcPost("eth_getBlockByNumber",
                                                    <<HexQuantity(locals.i + 1), TRUE>>))
            /\ locals' = LoopLocals(locals.webhookData, locals.currentBlock, locals.lastBlock,
                                    locals.blocks, locals.i + 1, items)
            /\ UNCHANGED <<pc, input, output>>
       ELSE PollReturns(items, [lastBlock |-> JsNumber(locals.lastBlock + locals.blocks)],
                        locals.head)

(***************************************************************************)
(* Polls of the trigger, from fresh static data.  input.heads are the      *)
(* heads the node, or the explorer, may report; a poll never sees a head   *)
(* lower than the one before.                                              *)
(***************************************************************************)
TokenContract == <<"0", "x">> \o Repeat("e", 40)

OneCro == <<"0","x","d","e","0","b","6","b","3","a","7","6","4","0","0","0","0">>

BlockTransactions ==
  << [hash |-> <<"0","x","a","1">>, from |-> JsString(OtherAddress),
      to |-> JsString(toLowerCase(SomeAddress)), value |-> OneCro],
     [hash |-> <<"0","x","a","2">>, from |-> JsString(OtherAddress),
      to |-> JsString(SomeAddress), value |-> <<"0","x","1">>],
     [hash |-> <<"0","x","a","3">>, from |-> JsString(OtherAddress),
      to |-> Null, value |-> OneCro \o <<"0">>] >>

TxHistory ==
  << [hash |-> <<"0","x","b","1">>, from |-> OtherAddress, to |-> SomeAddress,
      blockNumber |-> <<"5">>, contractAddress |-> <<>>],
     [hash |-> <<"0","x","b","2">>, from |-> SomeAddress, to |-> OtherAddress,
      blockNumber |-> <<"5">>, contractAddress |-> <<>>],
     [hash |-> <<"0","x","b","3">>, from |-> OtherAddress, to |-> toLowerCase(SomeAddress),
      blockNumber |-> <<"7">>, contractAddress |-> <<>>] >>

TokenHistory ==
  << [hash |-> <<"0","x","c","1">>, from |-> OtherAddress, to |-> SomeAddress,
      blockNumber |-> <<"6">>, contractAddress |-> TokenContract],
     [hash |-> <<"0","x","c","2">>, from |-> SomeAddress, to |-> OtherAddress,
      blockNumber |-> <<"7">>, contractAddress |-> SomeAddress] >>

RpcCredentials ==
  {[network |-> c.network, rpcEndpoint |-> c.rpcEndpoint, cronosScanApiKey |-> <<>>] :
     c \in CredentialSets}

ScanCredentials ==
  {[network |-> n, rpcEndpoint |-> "", cronosScanApiKey |-> k] :
     n \in {"mainnet", "testnet"}, k \in {<<>>, <<"K">>}}

NewBlockInputs ==
  {[fn |-> "poll", event |-> "newBlock", credentials |-> c, heads |-> {0, 1, 2, 13},
    nullBlocks |-> nb, txBlocks |-> {1}, transactions |-> BlockTransactions] :
     c \in RpcCredentials, nb \in {{}, {2}}}

LargeTransactionInputs ==
  {[fn |-> "poll", event |-> "largeTransaction", credentials |-> c, heads |-> {0, 1, 7},
    nullBlocks |-> {2}, txBlocks |-> {1, 3}, transactions |-> BlockTransactions,
    minAmount |-> m, watchAddress |-> w] :
     c \in {x \in RpcCredentials : x.network = "mainnet"},
     m \in {[n |-> 1, integer |-> TRUE], [n |-> 0, integer |-> FALSE]},
     w \in {<<>>, SomeAddress}}

ContractEventInputs ==
  {[fn |-> "poll", event |-> "contractEvent", credentials |-> c, heads |-> {0, 50, 150, 1200},
    contractAddress |-> SomeAddress, eventSignature |-> sig] :
     c \in {x \in RpcCredentials : x.rpcEndpoint = ""},
     sig \in {<<>>, <<"0","x","d","d","f","2">>}}

TransactionToAddressInputs ==
  {[fn |-> "poll", event |-> "newTransactionToAddress", credentials |-> c, heads |-> {4, 5, 7},
    address |-> SomeAddress, includeTokenTransfers |-> t,
    history |-> TxHistory, tokenHistory |-> TokenHistory] :
     c \in ScanCredentials, t \in BOOLEAN}

TokenTransferInputs ==
  {[fn |-> "poll", event |-> "tokenTransfer", credentials |-> c, heads |-> {4, 6, 7},
    tokenAddress |-> ta, fromAddress |-> f, toAddress |-> t, tokenHistory |-> TokenHistory] :
     c \in {x \in ScanCredentials : x.network = "mainnet"},
     ta \in {<<>>, TokenContract}, f \in {<<>>, OtherAddress}, t \in {<<>>, SomeAddress}}

TriggerInputs ==
  NewBlockInputs \cup LargeTransactionInputs \cup ContractEventInputs
    \cup TransactionToAddressInputs \cup TokenTransferInputs

\* what eth_getLogs may answer for the range up to the head
LogsResults(head) ==
  {Null, [t |-> "array", logs |-> <<>>],
   [t |-> "array",
    logs |-> <<[address |-> SomeAddress, transactionHash |-> <<"0","x","d","1">>,
                blockNumber |-> HexQuantity(head)]>>]}

InitTrigger ==
  /\ input \in TriggerInputs
  /\ pc = "ready"
  /\ locals = IdleLocals([lastBlock |-> Undefined], 0, 0)
  /\ output = [result |-> Return(Null), emitted |-> <<>>, failed |-> 0]
  /\ requests = <<>>

NextTrigger ==
  \/ PollHttpThrows
  \/ PollNewBlockStart
  \/ \E head \in input.heads : PollNewBlockHead(head)
  \/ PollNewBlockBlock
  \/ PollTransactionToAddressStart
  \/ \E head \in input.heads : PollTransactionToAddressTxList(head)
  \/ \E head \in input.heads : PollTransactionToAddressTokenTx(head)
  \/ PollTokenTransferStart
  \/ \E head \in input.heads : PollTokenTransferRespond(head)
  \/ PollContractEventStart
  \/ \E head \in input.heads : PollContractEventHead(head)
  \/ \E result \in LogsResults(locals.currentBlock) : PollContractEventLogs(result)
  \/ PollLargeTransactionStart
  \/ \E head \in input.heads : PollLargeTransactionHead(head)
  \/ PollLargeTransactionBlock

SpecTrigger == InitTrigger /\ [][NextTrigger]_vars

InPoll == input.fn = "poll"


\* the JSON-RPC requests made so far, and those of one method
RpcRequests == SelectSeq(requests, LAMBDA r : "method" \in DOMAIN r)
RequestsOf(method) == SelectSeq(RpcRequests, LAMBDA r : r.method = method)

\* the number a hex quantity written by HexQuantity stands for
QuantityValue(str) ==
  IF str[3] = "-" THEN 0 - parseIntHex(SubSeq(str, 4, Len(str))).n
  ELSE parseIntHex(str).n

\* all items emitted, in order
RECURSIVE Flatten(_)
Flatten(lists) == IF lists = <<>> THEN <<>> ELSE Head(lists) \o Flatten(Tail(lists))

EmittedItems == Flatten(output.emitted)

\* C22: the trigger's JSON-RPC requests go to the URL getRpcUrl chooses for
\* the same credentials: the custom endpoint when it is not empty, whatever
\* the network, and the network's default otherwise.
C22_PollUsesTransportUrl ==
  InPoll => \A k \in 1..Len(RpcRequests) : RpcRequests[k].url = getRpcUrl(input.credentials)

\* the trigger and getRpcUrl agree on mainnet and for an empty endpoint; on
\* testnet the trigger uses the testnet default
C22_PollUrlAgreesOffTestnetCustom ==
  InPoll =>
    \A k \in 1..Len(RpcRequests) :
      IF input.credentials.network = "testnet"
      THEN RpcRequests[k].url = TestnetRpcUrl
      ELSE RpcRequests[k].url = getRpcUrl(input.credentials)

InExplorerPoll == InPoll /\ input.event \in {"newTransactionToAddress", "tokenTransfer"}

\* C24: for the two explorer triggers, a transaction emitted by one poll is
\* not emitted by a later poll.
C24_EmittedByOnePoll ==
  InExplorerPoll =>
    \A p, q \in 1..Len(output.emitted) :
      p < q =>
        \A a \in 1..Len(output.emitted[p]), b \in 1..Len(output.emitted[q]) :
          <<output.emitted[p][a].type, output.emitted[p][a].hash>>
            # <<output.emitted[q][b].type, output.emitted[q][b].hash>>

\* a later poll emits no transaction of a block below the greatest block of
\* an earlier poll: only the transactions of the cursor's block come again
C24_OnlyCursorBlockAgain ==
  InExplorerPoll =>
    \A p, q \in 1..Len(output.emitted) :
      p < q =>
        \A a \in 1..Len(output.emitted[p]), b \in 1..Len(output.emitted[q]) :
          output.emitted[p][a].blockNumber <= output.emitted[q][b].blockNumber

InNewBlock == InPoll /\ input.event = "newBlock"

\* C25: for New Block, the block numbers emitted over all polls are
\* strictly increasing, and one poll emits at most 10 blocks.
C25_BlocksStrictlyIncreasing ==
  InNewBlock =>
    /\ \A k \in 1..(Len(EmittedItems) - 1) :
         EmittedItems[k].blockNumber < EmittedItems[k + 1].blockNumber
    /\ \A p \in 1..Len(output.emitted) : Len(output.emitted[p]) <= 10

\* one poll emits at most 10 blocks, and the block numbers emitted are
\* strictly increasing but for block 0, which may come again
C25_IncreasingButBlockZero ==
  InNewBlock =>
    /\ \A k \in 1..(Len(EmittedItems) - 1) :
         \/ EmittedItems[k].blockNumber < EmittedItems[k + 1].blockNumber
         \/ EmittedItems[k].blockNumber = 0 /\ EmittedItems[k + 1].blockNumber = 0
    /\ \A p \in 1..Len(output.emitted) : Len(output.emitted[p]) <= NewBlockLimit

\* the block the first poll asked for: one past the cursor's first value
FirstBlock == QuantityValue(RequestsOf("eth_getBlockByNumber")[1].params[1])

EmittedBlocks == {EmittedItems[k].blockNumber : k \in 1..Len(EmittedItems)}

CursorSet == locals.webhookData.lastBlock.t = "number"

\* C26: for New Block, after polls that all succeeded, every block from the
\* first one asked for up to the cursor has been emitted.
C26_CursorPassesEmittedOnly ==
  (InNewBlock /\ pc = "ready" /\ output.failed = 0 /\ CursorSet) =>
    \A b \in FirstBlock..locals.webhookData.lastBlock.n : b \in EmittedBlocks

\* the same when the node returned every block and the cursor was never 0
C26_EmittedWhenNoNullNoZero ==
  (InNewBlock /\ pc = "ready" /\ output.failed = 0 /\ CursorSet
     /\ input.nullBlocks = {} /\ FirstBlock > 1) =>
    \A b \in FirstBlock..locals.webhookData.lastBlock.n : b \in EmittedBlocks

\* the ranges of the eth_getLogs requests made so far
LogRanges ==
  [k \in 1..Len(RequestsOf("eth_getLogs")) |->
     [fromBlock |-> QuantityValue(RequestsOf("eth_getLogs")[k].params[1].fromBlock),
      toBlock |-> QuantityValue(RequestsOf("eth_getLogs")[k].params[1].toBlock)]]

InContractEvent == InPoll /\ input.event = "contractEvent"

\* C27: for Contract Event, over polls that all succeeded, every block from
\* the first range's start to the latest head asked for lies in the range
\* of some eth_getLogs request.
C27_RangesTileTheChain ==
  (InContractEvent /\ Len(LogRanges) > 0 /\ output.failed = 0) =>
    \A b \in LogRanges[1].fromBlock..LogRanges[Len(LogRanges)].toBlock :
      \E k \in 1..Len(LogRanges) : LogRanges[k].fromBlock <= b /\ b <= LogRanges[k].toBlock

\* each range ends at the head reported and spans at most 1000 blocks
\* before it
C27_RangeEndsAtHead ==
  (InContractEvent /\ pc = "logs") =>
    /\ LogRanges[Len(LogRanges)].toBlock = locals.head
    /\ LogRanges[Len(LogRanges)].fromBlock >= locals.head - ContractEventRange

\* C28: for every event, the cursor is not written while a poll runs, and
\* after a poll that threw it is what it was when that poll began.
C28_FailedPollKeepsCursor ==
  InPoll => ((pc # "ready" \/ output.result.threw) => locals.webhookData = locals.before)

\* a New Block poll threw on its second block request, the cursor being set
C28_Witness ==
  /\ InNewBlock /\ pc = "ready" /\ output.result.threw /\ CursorSet
  /\ locals.polls = 2
  /\ Len(RequestsOf("eth_getBlockByNumber")) = 3

(***************************************************************************)
(* sendTransaction.  getAddressFromPrivateKey and signTransaction are      *)
(* async functions whose body is a throw.  The steps of sendTransaction    *)
(* that follow a return of either are written out up to their request.     *)
(***************************************************************************)
SigningError == "Transaction signing requires the ethers.js library"

getAddressFromPrivateKey(privateKey) == Throw(SigningError)

\* a signTransaction that returns a signed transaction
signTransactionSigns(txObject, privateKey) == Return(<<"0", "x", "f", "8">>)

signTransaction(txObject, privateKey) == Throw(SigningError)

\* NETWORK_CONFIG[credentials.network].chainId
getChainId(credentials) == IF credentials.network = "mainnet" THEN 25 ELSE 338

\* str.startsWith('0x') ? str : decimalToHex(str)
hexOrDecimal(str) ==
  IF startsWith(str, <<"0", "x">>) THEN Return(str) ELSE decimalToHex(JsString(str))

\* sendTransaction ends with an error
SendTransactionThrows(error) ==
  /\ output' = Throw(error)
  /\ pc' = "done"
  /\ UNCHANGED requests

\* sendTransaction from the nonce and the gas price to its end, or to the
\* request that follows
SendTransactionFrom(txNonce, txGasPrice) ==
  \E valueWei \in {croToWei(input.value, CRO_DECIMALS)},
     nonce \in {hexOrDecimal(txNonce)}, gasPrice \in {hexOrDecimal(txGasPrice)} :
    IF valueWei.threw \/ nonce.threw \/ gasPrice.threw THEN SendTransactionThrows("SyntaxError")
    ELSE
      \E txObject \in {[to |-> input.to,
                        value |-> decimalToHex(JsString(valueWei.value)).value,
                        data |-> IF input.data # <<>> THEN input.data ELSE <<"0", "x">>,
                        nonce |-> nonce.value, gasPrice |-> gasPrice.value,
                        chainId |-> getChainId(input.credentials)]} :
      \E from \in {getAddressFromPrivateKey(input.credentials.privateKey)} :
        IF input.gasLimit = <<>> /\ ~from.threw
        THEN /\ requests' = Send("eth_estimateGas",
                                 <<[from |-> from.value, to |-> input.to,
                                    value |-> txObject.value, data |-> txObject.data]>>)
             /\ pc' = "estimating"
             /\ UNCHANGED output
        ELSE
          \E gas \in {IF input.gasLimit = <<>> THEN decimalToHex(JsNumber(21000))
                      ELSE hexOrDecimal(input.gasLimit)} :
            IF gas.threw THEN SendTransactionThrows("SyntaxError")
            ELSE
              \E signedTx \in {signTransaction(txObject @@ [gas |-> gas.value],
                                               input.credentials.privateKey)} :
                IF signedTx.threw THEN SendTransactionThrows(signedTx.error)
                ELSE /\ requests' = Send("eth_sendRawTransaction", <<signedTx.value>>)
                     /\ pc' = "broadcast"
                     /\ UNCHANGED output

\* sendTransaction up to its first request, or to its end
SendTransactionStart ==
  /\ pc = "ready" /\ input.fn = "sendTransaction"
  /\ IF input.credentials.privateKey = <<>>
     THEN SendTransactionThrows("Private key is required for sending transactions")
     ELSE IF ~isValidAddress(input.to)
     THEN SendTransactionThrows("Invalid recipient address")
     ELSE IF input.nonce = <<>>
     THEN \E from \in {getAddressFromPrivateKey(input.credentials.privateKey)} :
            IF from.threw THEN SendTransactionThrows(from.error)
            ELSE /\ requests' = Send("eth_getTransactionCount", <<from.value, "pending">>)
                 /\ pc' = "counting"
                 /\ UNCHANGED output
     ELSE IF input.gasPrice = <<>>
     THEN /\ requests' = Send("eth_gasPrice", <<>>)
          /\ pc' = "awaiting"
          /\ UNCHANGED output
     ELSE SendTransactionFrom(input.nonce, input.gasPrice)
  /\ UNCHANGED <<input, locals>>

\* sendTransaction from the response to eth_gasPrice on
SendTransactionGasPrice(response) ==
  /\ pc = "awaiting" /\ input.fn = "sendTransaction"
  /\ IF response.error THEN SendTransactionThrows("NodeApiError")
     ELSE SendTransactionFrom(input.nonce, response.result)
  /\ UNCHANGED <<input, locals>>

(***************************************************************************)
(* Calls of sendTransaction.                                               *)
(***************************************************************************)
Quantities == {<<>>, <<"7">>, <<"0", "x", "7">>, <<"g">>}

SendInputs ==
  {[fn |-> "sendTransaction",
    credentials |-> [network |-> n, rpcEndpoint |-> "", privateKey |-> k],
    to |-> to, value |-> v, data |-> d, gasLimit |-> gl, gasPrice |-> gp, nonce |-> no] :
     n \in {"mainnet", "testnet"}, k \in {<<>>, <<"k", "e", "y">>},
     to \in {SomeAddress, ShortAddress},
     v \in {<<"1">>, <<"0", ".", "5">>, <<"x">>}, d \in {<<>>, <<"0", "x", "a", "b">>},
     gl \in Quantities, gp \in Quantities, no \in Quantities}

InitSend ==
  /\ input \in SendInputs
  /\ pc = "ready"
  /\ locals = HandlerLocals
  /\ output = Return(<<>>)
  /\ requests = <<>>

NextSend ==
  \/ SendTransactionStart
  \/ \E response \in {RpcError, RpcResult(<<"0", "x", "1", "3", "8", "8">>),
                      RpcResult(<<"5", "0", "0", "0">>)} :
       SendTransactionGasPrice(response)

SpecSend == InitSend /\ [][NextSend]_vars

InSend == input.fn = "sendTransaction"

\* C29: sendTransaction never posts eth_sendRawTransaction and never
\* returns a result: whatever the parameters and the response to
\* eth_gasPrice, it is at its start, awaiting the gas price, or ended with
\* an error.
C29_NeverBroadcasts ==
  InSend =>
    /\ \A k \in 1..Len(requests) : requests[k].method # "eth_sendRawTransaction"
    /\ pc \in {"ready", "awaiting", "done"}
    /\ pc = "done" => output.threw
    /\ pc # "done" => output = Return(<<>>)

\* every parameter valid, nonce and gas limit supplied, the gas price
\* fetched: the call ends with the signing error
C29_Witness ==
  /\ InSend /\ pc = "done"
  /\ output = Throw(SigningError)
  /\ isValidAddress(input.to)
  /\ input.nonce = <<"7">> /\ input.gasLimit = <<"0", "x", "7">> /\ input.gasPrice = <<>>
  /\ Len(requests) = 1 /\ requests[1].method = "eth_gasPrice"

(***************************************************************************)
(* The encoder written out in readContract, writeContract and              *)
(* deployContract, and the three encoders run on the same input.  pc is    *)
(* the set of encoders that have run, output their results.                *)
(***************************************************************************)
\* what one turn of the loop of readContract appends to callData
inlineParam(param) ==
  IF param.type = TypeAddress
  THEN IF param.value.t # "string" THEN Throw("TypeError")
       ELSE Return(padStart(replaceFirst(toLowerCase(param.value.s), <<"0", "x">>), 64, "0"))
  ELSE IF param.type = TypeUint256 \/ startsWith(param.type, TypeUint)
  THEN IF ToBigInt(param.value).ok
       THEN Return(padStart(BigIntToString(ToBigInt(param.value), 16), 64, "0"))
       ELSE Throw("SyntaxError")
  ELSE IF param.type = TypeBool
  THEN Return(padStart(IF param.value = JsString(TRUE_STR) \/ param.value = JsString(<<"1">>)
                       THEN <<"1">> ELSE <<"0">>, 64, "0"))
  ELSE IF param.type = TypeBytes32
  THEN IF param.value.t # "string" THEN Throw("TypeError")
       ELSE Return(padEnd(replaceFirst(param.value.s, <<"0", "x">>), 64, "0"))
  ELSE Return(<<>>)

\* the loop of readContract over params[i..]
RECURSIVE inlineEncodeFrom(_, _, _)
inlineEncodeFrom(params, i, callData) ==
  IF i > Len(params) THEN Return(callData)
  ELSE LET piece == inlineParam(params[i])
       IN  IF piece.threw THEN piece
           ELSE inlineEncodeFrom(params, i + 1, callData \o piece.value)

\* callData of readContract
inlineEncode(functionSignature, params) == inlineEncodeFrom(params, 1, functionSignature)

NotRun == Return(<<>>)

RunEncodeFunctionCall ==
  /\ input.fn = "encoders" /\ "encodeFunctionCall" \notin pc
  /\ output' = [output EXCEPT !.encodeFunctionCall =
                                encodeFunctionCall(input.functionSignature, input.params)]
  /\ pc' = pc \cup {"encodeFunctionCall"}
  /\ UNCHANGED <<input, locals, requests>>

RunEncodeFunction ==
  /\ input.fn = "encoders" /\ "encodeFunction" \notin pc
  /\ output' = [output EXCEPT !.encodeFunction =
                                encodeFunction(input.functionSignature, input.params)]
  /\ pc' = pc \cup {"encodeFunction"}
  /\ UNCHANGED <<input, locals, requests>>

RunReadContractEncoding ==
  /\ input.fn = "encoders" /\ "readContract" \notin pc
  /\ output' = [output EXCEPT !.readContract =
                                inlineEncode(input.functionSignature, input.params)]
  /\ pc' = pc \cup {"readContract"}
  /\ UNCHANGED <<input, locals, requests>>

AgreeInputs ==
  {[fn |-> "encoders", functionSignature |-> sel, params |-> ps] :
     sel \in Selectors, ps \in ParamLists}

InitAgree ==
  /\ input \in AgreeInputs
  /\ pc = {}
  /\ locals = NoLocals
  /\ output = [encodeFunctionCall |-> NotRun, encodeFunction |-> NotRun, readContract |-> NotRun]
  /\ requests = <<>>

NextAgree ==
  \/ RunEncodeFunctionCall
  \/ RunEncodeFunction
  \/ RunReadContractEncoding

SpecAgree == InitAgree /\ [][NextAgree]_vars

AllRun == input.fn = "encoders" /\ pc = {"encodeFunctionCall", "encodeFunction", "readContract"}

\* C30: for a selector and a list of static parameters, the three encoders
\* produce the same call data.
C30_EncodersAgree ==
  (AllRun /\ AllStatic(input.params)) =>
    /\ output.encodeFunctionCall = output.encodeFunction
    /\ output.encodeFunction = output.readContract

\* the types the written-out encoder knows
IsInlineType(t) == t \in {TypeAddress, TypeBool, TypeBytes32} \/ startsWith(t, TypeUint)

\* the Utility operation and the written-out encoder agree on valid
\* addresses, uint*, bool and bytes32
C30_UtilityAndInlineAgree ==
  (AllRun /\ \A i \in 1..Len(input.params) :
               /\ IsInlineType(input.params[i].type)
               /\ input.params[i].type = TypeAddress
                    => isValidAddress(input.params[i].value.s)) =>
    output.encodeFunction = output.readContract

====
